---- MODULE Spec2Model ----
(***************************************************************************)
(* Map and movement core of the Civilization Revolution remake:            *)
(*   - Pathfinder.findPath (A* on the rectangular gameState.map),           *)
(*   - GameMap.findPath / getMovementCost (A* on the hexagonal HexTile grid),*)
(*   - the command layer (GameEngine.moveUnit, MovementSystem,              *)
(*     InputSystem.moveSelectedUnit) and the Unit movement ledger.          *)
(* Each part has its own specification over the shared variables; the      *)
(* variables of the other parts stay at their initial value.               *)
(***************************************************************************)
EXTENDS Integers, Sequences, FiniteSets, TLC

VARIABLES
    map,        \* gameState.map: [loaded, tiles] (loaded = FALSE is map: null)
    pfArgs,     \* arguments of the running Pathfinder.findPath call
    pfOpen,     \* openSet: sequence of node keys <<x, y>>, in array order
    pfNodes,    \* the node objects by key: [g, h, f, parent]
    pfClosed,   \* closedSet
    pfPc,       \* "idle" | "loop" | "done"
    pfResult,   \* [isNull, path]: the value findPath returned
    pfPops,     \* keys taken from openSet by shift(), in order
    tiles,      \* GameMap.tiles: the HexTile at [q][r]
    gmArgs,     \* arguments of the running GameMap.findPath call
    gmOpen,     \* its openSet: sequence of tile keys <<q, r>>, in array order
    gmNodes,    \* its node objects by tile key: [g, h, f, parent]
    gmClosed,   \* its closedSet
    gmPc,       \* "idle" | "loop" | "done"
    gmResult,   \* [isNull, path]: the value GameMap.findPath returned
    gmPops,     \* tile keys taken from its openSet, in order
    gmCost,     \* the last GameMap.getMovementCost call: <<>> or <<[from, to, type, cost]>>
    entities,   \* GameEngine.entities by id: [unit, position, targetPosition]
    players,    \* gameState.players: sequence of [id, units, cities]
    currentTurn,    \* gameState.currentTurn: index into players, from 0
    selectedEntity, \* InputSystem.selectedEntity: <<>> (null) or <<id>>
    unit2d,     \* a Unit object of the 2D game, taken on its own
    unit3d,     \* a Unit object of the 3D game (components/Unit.js)
    returned,   \* what the last call on unit2d or unit3d returned: <<>> or <<value>>
    called,     \* the last call on unit2d or unit3d, with the budgets it found:
                \* <<>> or <<[op, movement, actions]>>
    combats,    \* how many attacks have been ordered so far
    combatResult,   \* what the last attack returned: <<>> or
                    \* <<[op, attacker, defender, success]>>
    hexIn,      \* the arguments the hex-coordinate functions are called with
    hexOut,     \* what they returned, call after call
    gridCall,   \* the last GameMap.getTile / setTile call: <<>> or
                \* <<[op, q, r, result]>>
    tile2d,     \* a Tile object of the 2D game, taken on its own
    tile3d,     \* a HexTile object, taken on its own
    tileOps,    \* how many operations tile2d and tile3d have undergone
    resource,   \* a resource as ResourceSystem sees it: [type, value, maxValue, growthRate]
    indexTurn,  \* gameState.currentTurn of the engine of index.js
    genPc       \* where GameMap.generateMap stands: "terrain" | "rivers" |
                \* "resources" | "water" | "done"

pfVars == <<map, pfArgs, pfOpen, pfNodes, pfClosed, pfPc, pfResult, pfPops>>
gmVars == <<tiles, gmArgs, gmOpen, gmNodes, gmClosed, gmPc, gmResult, gmPops, gmCost>>

cmdVars == <<entities, players, currentTurn, selectedEntity>>

unitVars == <<unit2d, unit3d, returned, called>>

combatVars == <<combats, combatResult>>

hexVars == <<hexIn, hexOut, gridCall>>

tileVars == <<tile2d, tile3d, tileOps>>

restVars == <<tileVars, resource, indexTurn, genPc>>

vars == <<pfVars, gmVars, cmdVars, unitVars, combatVars, hexVars, restVars>>

----------------------------------------------------------------------------
(* Bounds of the rectangular map and of the queries                        *)

MaxSpecial == 2
MaxBudget == 3
MaxHexSpecial == 2

\* the small maps: SmallSide x SmallSide tiles (a cut of the 20 x 15 default map)
SmallSide == 0..2
SmallCoords == SmallSide \X SmallSide

\* a budget is <<>> (maxMovement = null) or <<m>>
NoBudget == <<>>
Budgets == {NoBudget} \cup {<<m>> : m \in 0..MaxBudget}

\* JavaScript's Infinity: larger than every finite cost, absorbing under +
Infinity == 1000000
Plus(a, b) == IF a >= Infinity \/ b >= Infinity THEN Infinity ELSE a + b

Abs(n) == IF n < 0 THEN -n ELSE n
Min(a, b) == IF a < b THEN a ELSE b
Max(a, b) == IF a > b THEN a ELSE b

SubsetsUpTo(S, n) == {T \in SUBSET S : Cardinality(T) <= n}

----------------------------------------------------------------------------
(* Tile component (rectangular map)                                        *)

NewTile(type, terrainModifier) ==
    [type |-> type, terrainModifier |-> terrainModifier,
     walkable |-> TRUE, defenseBonus |-> 0]

SetType(tile, type) ==
    CASE type = "water" ->
           [tile EXCEPT !.type = type, !.walkable = FALSE, !.terrainModifier = 0]
      [] type = "mountain" ->
           [tile EXCEPT !.type = type, !.walkable = FALSE, !.terrainModifier = 3,
                        !.defenseBonus = 2]
      [] type = "forest" ->
           [tile EXCEPT !.type = type, !.terrainModifier = 2, !.defenseBonus = 1]
      [] OTHER ->
           [tile EXCEPT !.type = type, !.walkable = TRUE, !.terrainModifier = 1,
                        !.defenseBonus = 0]

\* tiles as GameEngine.initializeMap constructs them and as setType leaves them
GrassTile == NewTile("grass", 1)
SpecialKinds == {SetType(GrassTile, "water"), NewTile("mountain", 3)}

\* gameState.map: null until initializeMap; else map[x][y] for x < width, y < height
CoordsOf(m) == (0..(m.width - 1)) \X (0..(m.height - 1))

NoMap == [loaded |-> FALSE, width |-> 0, height |-> 0, tiles |-> <<>>]

\* GameEngine.initializeMap(width, height): every tile is constructed walkable
InitializeMap(width, height) ==
    [loaded |-> TRUE, width |-> width, height |-> height,
     tiles |-> [c \in (0..(width - 1)) \X (0..(height - 1)) |->
        IF c[1] = 0 \/ c[2] = 0 \/ c[1] = width - 1 \/ c[2] = height - 1
            THEN NewTile("water", 0)
        ELSE IF c[1] = 5 /\ c[2] = 5 THEN NewTile("mountain", 3)
        ELSE IF c[1] % 7 = 0 /\ c[2] % 7 = 0 THEN NewTile("forest", 2)
        ELSE NewTile("grass", 1)]]

\* the small maps: initializeMap's map (a border of water tiles of modifier 0 round
\* the grass) with at most MaxSpecial tiles made unwalkable or costly
SmallMaps ==
    LET base == InitializeMap(Cardinality(SmallSide), Cardinality(SmallSide))
    IN UNION { { [base EXCEPT !.tiles =
                    [c \in SmallCoords |-> IF c \in S THEN k[c] ELSE base.tiles[c]]] :
                 k \in [S -> SpecialKinds] } :
               S \in SubsetsUpTo(SmallCoords, MaxSpecial) }

\* Scenario A: 5 x 5, all grass except an unwalkable mountain at (2,2)
ScenarioA ==
    [loaded |-> TRUE, width |-> 5, height |-> 5,
     tiles |-> [c \in (0..4) \X (0..4) |->
                  IF c = <<2, 2>> THEN SetType(GrassTile, "mountain") ELSE GrassTile]]

Maps == {NoMap, ScenarioA} \cup SmallMaps

\* the tiles a query may start from: a corner and the inner tile
Starts == {<<0, 0>>, <<1, 1>>}

----------------------------------------------------------------------------
(* Pathfinder (utils/Pathfinder.js)                                        *)

IsValidCoordinate(m, x, y) ==
    IF ~m.loaded THEN FALSE
    ELSE x >= 0 /\ x < m.width /\ y >= 0 /\ y < m.height

\* getTileAt: <<>> stands for null, <<tile>> for a tile
GetTileAt(m, x, y) ==
    IF ~IsValidCoordinate(m, x, y) THEN <<>> ELSE <<m.tiles[<<x, y>>]>>

Heuristic(x1, y1, x2, y2) == Abs(x1 - x2) + Abs(y1 - y2)

\* mutant: the last direction is a diagonal
Directions_Diagonal == << <<0, -1>>, <<1, 0>>, <<0, 1>>, <<-1, -1>> >>

Directions == << <<0, -1>>, <<1, 0>>, <<0, 1>>, <<-1, 0>> >>

RECURSIVE NeighborsFrom(_, _, _, _)
NeighborsFrom(m, x, y, i) ==
    IF i > Len(Directions) THEN <<>>
    ELSE LET newX == x + Directions[i][1]
             newY == y + Directions[i][2]
             tile == GetTileAt(m, newX, newY)
             rest == NeighborsFrom(m, x, y, i + 1)
         IN IF IsValidCoordinate(m, newX, newY) /\ tile # <<>> /\ tile[1].walkable
            THEN <<<<newX, newY>>>> \o rest
            ELSE rest

GetNeighbors(m, x, y) == NeighborsFrom(m, x, y, 1)

\* tile.terrainModifier || 1: a modifier of 0 is falsy and counts as 1.
\* mutant: every step costs 1, whatever the terrain
GetMovementCost_Flat(m, to) == 1

GetMovementCost(m, to) ==
    LET tile == GetTileAt(m, to[1], to[2])
    IN IF tile = <<>> THEN Infinity
       ELSE IF tile[1].terrainModifier = 0 THEN 1 ELSE tile[1].terrainModifier

NoNode == [seen |-> FALSE, g |-> 0, h |-> 0, f |-> 0, parent |-> <<>>]

\* openSet.sort((a, b) => a.f - b.f): a stable sort, ascending f
InsertByF(sorted, k, nodes) ==
    LET NotAfter(e) == nodes[e].f <= nodes[k].f
        After(e) == nodes[e].f > nodes[k].f
    IN SelectSeq(sorted, NotAfter) \o <<k>> \o SelectSeq(sorted, After)

RECURSIVE SortFrom(_, _, _, _)
SortFrom(open, i, sorted, nodes) ==
    IF i > Len(open) THEN sorted
    ELSE SortFrom(open, i + 1, InsertByF(sorted, open[i], nodes), nodes)

SortByF(open, nodes) == SortFrom(open, 1, <<>>, nodes)

\* mutant: the neighbour is never found in openSet
InOpen_Never(open, k) == FALSE

\* openSet.findIndex(node => node.x === neighbor.x && node.y === neighbor.y) !== -1
InOpen(open, k) == \E i \in 1..Len(open) : open[i] = k

\* mutant: a step that uses up the budget exactly is pruned too
OverBudget_Strict(maxMovement, tentativeG) ==
    maxMovement # NoBudget /\ tentativeG >= maxMovement[1]

\* tentativeG > maxMovement prunes the neighbour when a budget was passed
OverBudget(maxMovement, tentativeG) ==
    maxMovement # NoBudget /\ tentativeG > maxMovement[1]

\* existingNeighbor found in openSet: relax only on a strictly better g
Relax(nodes, k, tentativeG, cur) ==
    IF tentativeG < nodes[k].g
    THEN [nodes EXCEPT ![k] = [g |-> tentativeG, f |-> tentativeG + nodes[k].h,
                               h |-> nodes[k].h, parent |-> cur, seen |-> TRUE]]
    ELSE nodes

\* the body of "for (const neighbor of neighbors)", from the i-th neighbour on
RECURSIVE ExploreFrom(_, _, _, _, _, _, _, _)
ExploreFrom(m, args, cur, ns, i, open, nodes, closed) ==
    IF i > Len(ns) THEN [open |-> open, nodes |-> nodes]
    ELSE LET nb == ns[i]
             tentativeG == Plus(nodes[cur].g, GetMovementCost(m, nb))
         IN IF nb \in closed
            THEN ExploreFrom(m, args, cur, ns, i + 1, open, nodes, closed)
            ELSE IF OverBudget(args.maxMovement, tentativeG)
            THEN ExploreFrom(m, args, cur, ns, i + 1, open, nodes, closed)
            ELSE IF InOpen(open, nb)
            THEN ExploreFrom(m, args, cur, ns, i + 1, open,
                             Relax(nodes, nb, tentativeG, cur), closed)
            ELSE LET h == Heuristic(nb[1], nb[2], args.endX, args.endY)
                     node == [seen |-> TRUE, g |-> tentativeG, h |-> h,
                              f |-> tentativeG + h, parent |-> cur]
                 IN ExploreFrom(m, args, cur, ns, i + 1, Append(open, nb),
                                [nodes EXCEPT ![nb] = node], closed)

\* reconstructPath: walk the parent pointers, the start node (parent null) excluded
RECURSIVE ReconstructPath(_, _)
ReconstructPath(nodes, k) ==
    IF nodes[k].parent = <<>> THEN <<>>
    ELSE Append(ReconstructPath(nodes, nodes[k].parent), k)

NullResult == [isNull |-> TRUE, path |-> <<>>]
PathResult(p) == [isNull |-> FALSE, path |-> p]

NoArgs == [startX |-> 0, startY |-> 0, endX |-> 0, endY |-> 0, maxMovement |-> NoBudget]
NoNodes(m) == [c \in CoordsOf(m) |-> NoNode]

\* destinations: the tiles of a small map, two coordinates outside it, and the
\* far corner of Scenario A
Goals == SmallCoords \cup {<<-1, 0>>, <<1, 3>>, <<4, 4>>}

\* mutant: only the column is compared
SameTile_XOnly(startX, startY, endX, endY) == startX = endX

\* startX === endX && startY === endY
SameTile(startX, startY, endX, endY) == startX = endX /\ startY = endY

\* findPath, lines 20-46: the two early returns, else the start node is pushed
StartFindPath(start, goal, maxMovement) ==
    /\ pfPc = "idle"
    /\ pfArgs' = [startX |-> start[1], startY |-> start[2],
                  endX |-> goal[1], endY |-> goal[2], maxMovement |-> maxMovement]
    /\ pfPops' = <<>>
    /\ LET endTile == GetTileAt(map, goal[1], goal[2])
           h == Heuristic(start[1], start[2], goal[1], goal[2])
       IN IF SameTile(start[1], start[2], goal[1], goal[2])
          THEN /\ pfResult' = PathResult(<<>>)
               /\ pfPc' = "done"
               /\ UNCHANGED <<pfOpen, pfNodes, pfClosed>>
          ELSE IF endTile = <<>> \/ ~endTile[1].walkable
          THEN /\ pfResult' = NullResult
               /\ pfPc' = "done"
               /\ UNCHANGED <<pfOpen, pfNodes, pfClosed>>
          ELSE /\ pfOpen' = <<start>>
               /\ pfNodes' = [NoNodes(map) EXCEPT ![start] =
                                [seen |-> TRUE, g |-> 0, h |-> h, f |-> 0 + h,
                                 parent |-> <<>>]]
               /\ pfClosed' = {}
               /\ pfPc' = "loop"
               /\ UNCHANGED pfResult
    /\ UNCHANGED map

\* one iteration of "while (openSet.length > 0)", lines 48-108
SearchStep ==
    /\ pfPc = "loop"
    /\ pfOpen # <<>>
    /\ LET sorted == SortByF(pfOpen, pfNodes)
           cur == Head(sorted)
           rest == Tail(sorted)
       IN /\ pfPops' = Append(pfPops, cur)
          /\ IF cur[1] = pfArgs.endX /\ cur[2] = pfArgs.endY
             THEN /\ pfResult' = PathResult(ReconstructPath(pfNodes, cur))
                  /\ pfPc' = "done"
                  /\ pfOpen' = rest
                  /\ UNCHANGED <<pfNodes, pfClosed>>
             ELSE LET closed == pfClosed \cup {cur}
                      out == ExploreFrom(map, pfArgs, cur,
                                         GetNeighbors(map, cur[1], cur[2]), 1,
                                         rest, pfNodes, closed)
                  IN /\ pfClosed' = closed
                     /\ pfOpen' = out.open
                     /\ pfNodes' = out.nodes
                     /\ UNCHANGED <<pfResult, pfPc>>
    /\ UNCHANGED <<map, pfArgs>>

\* the loop ends with openSet empty: "No path found", lines 110-111
SearchExhausted ==
    /\ pfPc = "loop"
    /\ pfOpen = <<>>
    /\ pfResult' = NullResult
    /\ pfPc' = "done"
    /\ UNCHANGED <<map, pfArgs, pfOpen, pfNodes, pfClosed, pfPops>>

\* the caller has the result; the locals of the call are gone
FindPathReturn ==
    /\ pfPc = "done"
    /\ pfPc' = "idle"
    /\ pfArgs' = NoArgs
    /\ pfOpen' = <<>>
    /\ pfNodes' = NoNodes(map)
    /\ pfClosed' = {}
    /\ pfResult' = NullResult
    /\ pfPops' = <<>>
    /\ UNCHANGED map

----------------------------------------------------------------------------
(* HexTile component (components/HexTile.js)                               *)

\* setTerrainProperties: each case assigns only the fields it names
SetTerrainProperties(t) ==
    CASE t.type = "grass" ->
           [t EXCEPT !.food = 1, !.production = 1, !.movementCost = 1, !.passable = TRUE]
      [] t.type = "plains" ->
           [t EXCEPT !.food = 1, !.production = 2, !.movementCost = 1, !.passable = TRUE]
      [] t.type = "hills" ->
           [t EXCEPT !.production = 2, !.defenseBonus = 1, !.movementCost = 2, !.passable = TRUE]
      [] t.type = "forest" ->
           [t EXCEPT !.production = 1, !.science = 1, !.defenseBonus = 1, !.movementCost = 2, !.passable = TRUE]
      [] t.type = "jungle" ->
           [t EXCEPT !.food = 1, !.defenseBonus = 1, !.movementCost = 3, !.passable = TRUE]
      [] t.type = "desert" ->
           [t EXCEPT !.gold = 1, !.movementCost = 1, !.passable = TRUE]
      [] t.type = "tundra" ->
           [t EXCEPT !.food = 1, !.culture = 1, !.movementCost = 2, !.passable = TRUE]
      [] t.type = "snow" ->
           [t EXCEPT !.movementCost = 3, !.passable = TRUE]
      [] t.type = "mountain" ->
           [t EXCEPT !.defenseBonus = 2, !.movementCost = 99, !.passable = FALSE]
      [] t.type = "coast" ->
           [t EXCEPT !.food = 1, !.gold = 1, !.science = 1, !.movementCost = 1, !.passable = TRUE]
      [] t.type = "ocean" ->
           [t EXCEPT !.movementCost = 99, !.passable = FALSE]
      [] t.type = "river" ->
           [t EXCEPT !.food = 1, !.movementCost = 2, !.passable = TRUE]
      [] OTHER ->
           [t EXCEPT !.food = 1, !.production = 1, !.movementCost = 1, !.passable = TRUE]

\* constructor: the defaults, then setTerrainProperties; no resource, no improvement
NewHexTile(q, r, type) ==
    LET t0 == [q |-> q, r |-> r, s |-> -q - r, type |-> type,
               passable |-> TRUE, movementCost |-> 1, defenseBonus |-> 0,
               food |-> 0, production |-> 0, gold |-> 0, science |-> 0, culture |-> 0,
               resource |-> "null", improvement |-> "null"]
    IN SetTerrainProperties(t0)

\* addResource: the resource is recorded, its bonus added to the yields
AddResource(t, resourceName) ==
    LET u == [t EXCEPT !.resource = resourceName]
    IN CASE resourceName = "cows" -> [u EXCEPT !.food = @ + 2]
         [] resourceName = "sheep" -> [u EXCEPT !.food = @ + 1]
         [] resourceName = "deer" -> [u EXCEPT !.food = @ + 1, !.production = @ + 1]
         [] resourceName = "fish" -> [u EXCEPT !.food = @ + 1]
         [] resourceName = "wheat" -> [u EXCEPT !.food = @ + 2]
         [] resourceName = "stone" -> [u EXCEPT !.production = @ + 1]
         [] resourceName = "iron" -> [u EXCEPT !.production = @ + 1]
         [] resourceName = "coal" -> [u EXCEPT !.production = @ + 2]
         [] resourceName = "oil" -> [u EXCEPT !.production = @ + 2, !.gold = @ + 1]
         [] resourceName = "gold_resource" -> [u EXCEPT !.gold = @ + 2]
         [] resourceName = "silver" -> [u EXCEPT !.gold = @ + 1]
         [] resourceName = "spices" -> [u EXCEPT !.gold = @ + 1, !.culture = @ + 1]
         [] resourceName = "dyes" -> [u EXCEPT !.gold = @ + 1, !.culture = @ + 1]
         [] resourceName = "ivory" -> [u EXCEPT !.gold = @ + 1, !.culture = @ + 1]
         [] resourceName = "wine" -> [u EXCEPT !.gold = @ + 1, !.culture = @ + 1]
         [] OTHER -> u

\* addImprovement: the improvement is recorded, its bonus added; a quarry also sets
\* the movement cost to 2
AddImprovement(t, improvementName) ==
    LET u == [t EXCEPT !.improvement = improvementName]
    IN CASE improvementName = "farm" -> [u EXCEPT !.food = @ + 1]
         [] improvementName = "mine" -> [u EXCEPT !.production = @ + 1]
         [] improvementName = "pasture" -> [u EXCEPT !.food = @ + 1]
         [] improvementName = "plantation" -> [u EXCEPT !.food = @ + 1, !.gold = @ + 1]
         [] improvementName = "camp" -> [u EXCEPT !.production = @ + 1]
         [] improvementName = "quarry" -> [u EXCEPT !.production = @ + 2, !.movementCost = 2]
         [] improvementName = "fishing_boats" -> [u EXCEPT !.food = @ + 1]
         [] improvementName = "trading_post" -> [u EXCEPT !.gold = @ + 1]
         [] improvementName = "fort" -> [u EXCEPT !.defenseBonus = @ + 3]
         [] improvementName = "lumbermill" -> [u EXCEPT !.production = @ + 1]
         [] improvementName = "windmill" -> [u EXCEPT !.food = @ + 1, !.production = @ + 1]
         [] improvementName = "customs_house" -> [u EXCEPT !.gold = @ + 2]
         [] OTHER -> u

----------------------------------------------------------------------------
(* GameMap (systems/GameMap.js): the hexagonal grid and its A* search      *)

\* new GameMap(4, 2): q from -width/2 to width/2 - 1, r from -height/2 to height/2 - 1
HexQs == -2..1
HexRs == -1..0
HexCoords == HexQs \X HexRs

\* tiles other than grass that a map may hold; the last is a coast tile after
\* addImprovement('quarry')
HexSpecialKinds(q, r) ==
    {NewHexTile(q, r, "mountain"), NewHexTile(q, r, "ocean"), NewHexTile(q, r, "coast"),
     AddImprovement(NewHexTile(q, r, "coast"), "quarry")}

HexMaps ==
    UNION { { [c \in HexCoords |->
                 IF c \in S THEN k[c] ELSE NewHexTile(c[1], c[2], "grass")] :
              k \in { f \in [S -> UNION {HexSpecialKinds(c[1], c[2]) : c \in S}] :
                        \A c \in S : f[c] \in HexSpecialKinds(c[1], c[2]) } } :
            S \in SubsetsUpTo(HexCoords, MaxHexSpecial) }

\* mutant: the difference of q keeps its sign
HexDistanceHalves_Signed(q1, r1, q2, r2) ==
    (q1 - q2) + Abs(r1 - r2) + Abs((-q1 - r1) - (-q2 - r2))

\* hexDistance before its division by 2: the distance counted in halves
HexDistanceHalves(q1, r1, q2, r2) ==
    LET s1 == -q1 - r1
        s2 == -q2 - r2
    IN Abs(q1 - q2) + Abs(r1 - r2) + Abs(s1 - s2)

HexDistance(q1, r1, q2, r2) == HexDistanceHalves(q1, r1, q2, r2) \div 2

EstimateDistance(tile1, tile2) == HexDistance(tile1.q, tile1.r, tile2.q, tile2.r)

\* mutant: the two diagonal directions are replaced by straight ones
HexDirections_Straight ==
    << <<1, 0>>, <<1, 0>>, <<0, -1>>, <<-1, 0>>, <<-1, 0>>, <<0, 1>> >>

HexDirections ==
    << <<1, 0>>, <<1, -1>>, <<0, -1>>, <<-1, 0>>, <<-1, 1>>, <<0, 1>> >>

\* getAdjacentTiles: the neighbours present in the grid, in direction order
RECURSIVE AdjacentFrom(_, _, _)
AdjacentFrom(ts, hexTile, i) ==
    IF i > Len(HexDirections) THEN <<>>
    ELSE LET k == <<hexTile.q + HexDirections[i][1], hexTile.r + HexDirections[i][2]>>
             rest == AdjacentFrom(ts, hexTile, i + 1)
         IN IF k \in DOMAIN ts THEN <<ts[k]>> \o rest ELSE rest

GetAdjacentTiles(ts, hexTile) == AdjacentFrom(ts, hexTile, 1)

\* getMovementCost(fromTile, toTile, unitMovementType)
GmGetMovementCost(fromTile, toTile, unitMovementType) ==
    IF unitMovementType = "naval" /\ toTile.type = "ocean" THEN 1
    ELSE IF unitMovementType = "naval" /\ toTile.type # "coast" /\ toTile.type # "ocean"
    THEN Infinity
    ELSE IF unitMovementType = "air" THEN 1
    ELSE toTile.movementCost

TileKey(tile) == <<tile.q, tile.r>>

\* existingNode found in openSet: updated only on a strictly better g
GmRelax(nodes, k, tentativeG, cur) ==
    IF tentativeG < nodes[k].g
    THEN [nodes EXCEPT ![k] = [g |-> tentativeG, f |-> Plus(tentativeG, nodes[k].h),
                               h |-> nodes[k].h, parent |-> cur, seen |-> TRUE]]
    ELSE nodes

\* the body of "for (const neighbor of neighbors)", from the i-th neighbour on
RECURSIVE GmExploreFrom(_, _, _, _, _, _, _, _)
GmExploreFrom(ts, args, cur, ns, i, open, nodes, closed) ==
    IF i > Len(ns) THEN [open |-> open, nodes |-> nodes]
    ELSE LET neighbor == ns[i]
             nk == TileKey(neighbor)
             movementCost == GmGetMovementCost(ts[cur], neighbor, args.unitMovementType)
             tentativeG == Plus(nodes[cur].g, movementCost)
         IN IF nk \in closed \/ ~neighbor.passable
            THEN GmExploreFrom(ts, args, cur, ns, i + 1, open, nodes, closed)
            ELSE IF ~InOpen(open, nk)
            THEN LET h == EstimateDistance(neighbor, ts[args.endKey])
                     node == [seen |-> TRUE, g |-> tentativeG, h |-> h,
                              f |-> Plus(tentativeG, h), parent |-> cur]
                 IN GmExploreFrom(ts, args, cur, ns, i + 1, Append(open, nk),
                                  [nodes EXCEPT ![nk] = node], closed)
            ELSE GmExploreFrom(ts, args, cur, ns, i + 1, open,
                               GmRelax(nodes, nk, tentativeG, cur), closed)

\* "while (node) { path.unshift(node.tile); node = node.parent; }": every node of
\* the chain, the start node included
RECURSIVE GmReconstructPath(_, _)
GmReconstructPath(nodes, k) ==
    IF nodes[k].parent = <<>> THEN <<k>>
    ELSE Append(GmReconstructPath(nodes, nodes[k].parent), k)

GmNoArgs == [startKey |-> <<0, 0>>, endKey |-> <<0, 0>>, unitMovementType |-> "infantry"]
GmNoNodes == [c \in HexCoords |-> NoNode]

UnitMovementTypes == {"infantry", "naval", "air"}
HexStarts == {<<-2, -1>>, <<0, 0>>}

\* a caller asks getMovementCost for the step fromTile -> toTile
GetMovementCostCall(fromKey, toKey, unitMovementType) ==
    /\ gmPc = "idle"
    /\ gmCost' = <<[from |-> fromKey, to |-> toKey, type |-> unitMovementType,
                    cost |-> GmGetMovementCost(tiles[fromKey], tiles[toKey],
                                               unitMovementType)]>>
    /\ UNCHANGED <<tiles, gmArgs, gmOpen, gmNodes, gmClosed, gmPc, gmResult, gmPops>>

\* findPath, lines 268-277: the start node (f: 0) is pushed, its key closed
StartGmFindPath(startKey, endKey, unitMovementType) ==
    /\ gmPc = "idle"
    /\ gmArgs' = [startKey |-> startKey, endKey |-> endKey,
                  unitMovementType |-> unitMovementType]
    /\ gmOpen' = <<startKey>>
    /\ gmNodes' = [GmNoNodes EXCEPT ![startKey] =
                     [seen |-> TRUE, g |-> 0,
                      h |-> EstimateDistance(tiles[startKey], tiles[endKey]),
                      f |-> 0, parent |-> <<>>]]
    /\ gmClosed' = {startKey}
    /\ gmPops' = <<>>
    /\ gmPc' = "loop"
    /\ gmCost' = <<>>
    /\ UNCHANGED <<tiles, gmResult>>

\* one iteration of "while (openSet.length > 0)", lines 279-337
GmSearchStep ==
    /\ gmPc = "loop"
    /\ gmOpen # <<>>
    /\ LET sorted == SortByF(gmOpen, gmNodes)
           cur == Head(sorted)
           rest == Tail(sorted)
       IN /\ gmPops' = Append(gmPops, cur)
          /\ IF cur = gmArgs.endKey
             THEN /\ gmResult' = PathResult(GmReconstructPath(gmNodes, cur))
                  /\ gmPc' = "done"
                  /\ gmOpen' = rest
                  /\ UNCHANGED <<gmNodes, gmClosed>>
             ELSE LET out == GmExploreFrom(tiles, gmArgs, cur,
                                           GetAdjacentTiles(tiles, tiles[cur]), 1,
                                           rest, gmNodes, gmClosed)
                  IN /\ gmOpen' = out.open
                     /\ gmNodes' = out.nodes
                     /\ gmClosed' = gmClosed \cup {cur}
                     /\ UNCHANGED <<gmResult, gmPc>>
    /\ UNCHANGED <<tiles, gmArgs, gmCost>>

\* the loop ends with openSet empty: "No path found", lines 339-340
GmSearchExhausted ==
    /\ gmPc = "loop"
    /\ gmOpen = <<>>
    /\ gmResult' = NullResult
    /\ gmPc' = "done"
    /\ UNCHANGED <<tiles, gmArgs, gmOpen, gmNodes, gmClosed, gmPops, gmCost>>

\* the caller has the result; the locals of the call are gone
GmFindPathReturn ==
    /\ gmPc = "done"
    /\ gmPc' = "idle"
    /\ gmArgs' = GmNoArgs
    /\ gmOpen' = <<>>
    /\ gmNodes' = GmNoNodes
    /\ gmClosed' = {}
    /\ gmResult' = NullResult
    /\ gmPops' = <<>>
    /\ UNCHANGED <<tiles, gmCost>>

----------------------------------------------------------------------------
(* Unit component (2D) and the command layer: GameEngine.moveUnit,          *)
(* GameEngine.endCurrentTurn, InputSystem.moveSelectedUnit, MovementSystem  *)

GetDefaultMovement(unitType) ==
    CASE unitType = "warrior" -> 2
      [] unitType = "archer" -> 2
      [] unitType = "scout" -> 3
      [] unitType = "settler" -> 2
      [] unitType = "worker" -> 2
      [] unitType = "spearman" -> 2
      [] unitType = "cavalry" -> 4
      [] OTHER -> 2

GetDefaultAttack(unitType) ==
    CASE unitType = "warrior" -> 10
      [] unitType = "archer" -> 8
      [] unitType = "scout" -> 5
      [] unitType = "settler" -> 3
      [] unitType = "worker" -> 2
      [] unitType = "spearman" -> 12
      [] unitType = "cavalry" -> 15
      [] OTHER -> 5

GetDefaultDefense(unitType) ==
    CASE unitType = "warrior" -> 5
      [] unitType = "archer" -> 3
      [] unitType = "scout" -> 2
      [] unitType = "settler" -> 1
      [] unitType = "worker" -> 1
      [] unitType = "spearman" -> 8
      [] unitType = "cavalry" -> 4
      [] OTHER -> 3

GetDefaultRange(unitType) == IF unitType = "archer" THEN 2 ELSE 1

\* health and damage are fractional in the program (attack * 0.85 ...): the
\* model counts them in hundredths of a point
Hundredths(n) == n * 100

NewUnit(type, owner) ==
    [type |-> type, owner |-> owner,
     health |-> Hundredths(100), maxHealth |-> Hundredths(100),
     attack |-> GetDefaultAttack(type), defense |-> GetDefaultDefense(type),
     movement |-> GetDefaultMovement(type), maxMovement |-> GetDefaultMovement(type),
     range |-> GetDefaultRange(type),
     level |-> 1, experience |-> 0, upgradeThreshold |-> 100,
     actionsRemaining |-> 1, promoted |-> FALSE]

\* mutant: one point per call even when none is left
UnitMove_Unguarded(unit) == [unit EXCEPT !.movement = @ - 1]

\* Unit.move: one point per call, whatever the distance; nothing at 0 points
UnitMove(unit) ==
    IF unit.movement > 0 THEN [unit EXCEPT !.movement = @ - 1] ELSE unit

\* mutant: the action is not given back
ResetTurn_MovementOnly(unit) == [unit EXCEPT !.movement = unit.maxMovement]

ResetTurn(unit) ==
    [unit EXCEPT !.movement = unit.maxMovement, !.actionsRemaining = 1]

CanPerformAction(unit) == unit.actionsRemaining > 0

\* mutant: the action is debited without looking at what remains
PerformAction_Unguarded(unit) == [unit EXCEPT !.actionsRemaining = @ - 1]

\* Unit.performAction: the unit after the call
PerformAction(unit) ==
    IF unit.actionsRemaining > 0 THEN [unit EXCEPT !.actionsRemaining = @ - 1] ELSE unit

\* Unit.performAction: the value returned
PerformActionReturns(unit) == unit.actionsRemaining > 0

\* the world of the command layer: initializeMap(3, 2), two players, one unit each
CmdWidth == 0..2
CmdHeight == 0..1
CmdMap == InitializeMap(Cardinality(CmdWidth), Cardinality(CmdHeight))

\* the coordinates a command may name: the tiles of the map and one beside it
CmdTargets == (CmdWidth \X CmdHeight) \cup {<<-1, 0>>}

\* an entity: its Unit component, its Position and movement.targetPosition
\* (<<>> is null).  While a unit travels, the model keeps its position at the
\* tile it left; the arrival snaps it to the target tile.
NewEntity(type, owner, x, y) ==
    [unit |-> NewUnit(type, owner), position |-> <<x, y>>, targetPosition |-> <<>>]

\* createEntity numbers the entities from 0
CreateInitialUnits ==
    (0 :> NewEntity("warrior", 0, 1, 0)) @@ (1 :> NewEntity("scout", 1, 1, 1))

EntityIds == DOMAIN CreateInitialUnits
CommandIds == EntityIds \cup {7}

\* gameState.players: Player objects with the ids of their units and cities as
\* createInitialUnits / createInitialCities register them (or not yet)
NewPlayer(id) == [id |-> id, units |-> <<>>, cities |-> <<>>]
PlayerSetups ==
    { <<NewPlayer(0), NewPlayer(1)>>,
      <<[NewPlayer(0) EXCEPT !.units = <<0>>, !.cities = <<2>>],
        [NewPlayer(1) EXCEPT !.units = <<1>>, !.cities = <<3>>]>> }

NoSelection == <<>>

\* MovementSystem.getPathDistance, InputSystem.isValidMove, GameEngine.moveUnit:
\* the Manhattan distance
GetPathDistance(startX, startY, endX, endY) == Abs(endX - startX) + Abs(endY - startY)

\* mutant: the owner of the unit is not looked at
MoveUnitAccepts_AnyOwner(es, ps, turn, unitId, toX, toY) ==
    /\ unitId \in DOMAIN es
    /\ GetPathDistance(es[unitId].position[1], es[unitId].position[2], toX, toY)
          <= es[unitId].unit.movement

\* GameEngine.moveUnit returns true
MoveUnitAccepts(es, ps, turn, unitId, toX, toY) ==
    /\ unitId \in DOMAIN es
    /\ es[unitId].unit.owner = ps[turn + 1].id
    /\ GetPathDistance(es[unitId].position[1], es[unitId].position[2], toX, toY)
          <= es[unitId].unit.movement

MoveUnit(unitId, toX, toY) ==
    /\ entities' =
          IF MoveUnitAccepts(entities, players, currentTurn, unitId, toX, toY)
          THEN [entities EXCEPT ![unitId].position = <<toX, toY>>,
                                ![unitId].unit = UnitMove(@)]
          ELSE entities
    /\ UNCHANGED <<players, currentTurn, selectedEntity>>

\* GameEngine.endCurrentTurn.  Player.endTurn calls a method on each registered
\* city and Player.startTurn on each registered unit; what is registered are
\* entity ids (numbers), so either call throws and ends the handler there.
EndCurrentTurn ==
    LET currentPlayer == players[currentTurn + 1]
    IN IF currentPlayer.cities # <<>>
       THEN UNCHANGED <<entities, players, currentTurn, selectedEntity>>
       ELSE /\ entities' = [id \in DOMAIN entities |->
                  IF entities[id].unit.owner = currentPlayer.id
                  THEN [entities[id] EXCEPT !.unit = ResetTurn(@)]
                  ELSE entities[id]]
            /\ currentTurn' = (currentTurn + 1) % Len(players)
            /\ UNCHANGED <<players, selectedEntity>>

\* InputSystem.getCurrentPlayerId: a mock value
GetCurrentPlayerId == 0

\* InputSystem.selectEntity, as processTileClick calls it on a left click
SelectEntity(id) ==
    /\ id \in DOMAIN entities
    /\ entities[id].unit.owner = GetCurrentPlayerId
    /\ selectedEntity' = <<id>>
    /\ UNCHANGED <<entities, players, currentTurn>>

IsValidMove(entity, toX, toY) ==
    GetPathDistance(entity.position[1], entity.position[2], toX, toY)
        <= entity.unit.movement

MoveSelectedUnit(x, y) ==
    /\ entities' =
          IF selectedEntity # NoSelection /\ IsValidMove(entities[selectedEntity[1]], x, y)
          THEN [entities EXCEPT ![selectedEntity[1]].position = <<x, y>>,
                                ![selectedEntity[1]].unit = UnitMove(@)]
          ELSE entities
    /\ UNCHANGED <<players, currentTurn, selectedEntity>>

\* MovementSystem.getTileAt: a mock tile, unwalkable at (0,0) only
MockWalkable(x, y) == x # 0 \/ y # 0

\* MovementSystem.getUnitAt: the first entity standing on the tile
GetUnitAt(es, x, y) ==
    LET here == {id \in DOMAIN es : es[id].position = <<x, y>>}
    IN IF here = {} THEN <<>>
       ELSE <<es[CHOOSE id \in here : \A other \in here : id <= other].unit>>

\* MovementSystem.canMoveTo: the bounds are those of the default 20 x 15 map
CanMoveTo(es, entity, x, y) ==
    /\ ~(x < 0 \/ y < 0 \/ x >= 20 \/ y >= 15)
    /\ MockWalkable(x, y)
    /\ LET occupyingUnit == GetUnitAt(es, x, y)
       IN ~(occupyingUnit # <<>> /\ occupyingUnit[1].owner = entity.unit.owner)

HasEnoughMovementPoints(entity, targetX, targetY) ==
    entity.unit.movement
        >= GetPathDistance(entity.position[1], entity.position[2], targetX, targetY)

\* requestMovement: unit.movement = Math.max(0, unit.movement - Math.ceil(distance))
ConsumeMovementPoints(u, distance) == [u EXCEPT !.movement = Max(0, @ - distance)]

RequestMovementAccepts(es, id, targetX, targetY) ==
    /\ CanMoveTo(es, es[id], targetX, targetY)
    /\ HasEnoughMovementPoints(es[id], targetX, targetY)

RequestMovement(id, targetX, targetY) ==
    /\ id \in DOMAIN entities
    /\ entities' =
          IF RequestMovementAccepts(entities, id, targetX, targetY)
          THEN [entities EXCEPT
                  ![id].targetPosition = <<<<targetX, targetY>>>>,
                  ![id].unit =
                      ConsumeMovementPoints(@,
                          GetPathDistance(entities[id].position[1],
                                          entities[id].position[2],
                                          targetX, targetY))]
          ELSE entities
    /\ UNCHANGED <<players, currentTurn, selectedEntity>>

\* MovementSystem.calculateDistanceTraveled
CalculateDistanceTraveled == 1

\* MovementSystem.onMovementComplete
OnMovementComplete(unit) ==
    [unit EXCEPT !.movement = Max(0, @ - CalculateDistanceTraveled)]

\* MovementSystem.update until the unit is within 0.1 of its target: the speed is
\* unit.movement * delta * 0.05, so a unit at 0 points does not get nearer.
ArriveAtDestination(id) ==
    /\ id \in DOMAIN entities
    /\ entities[id].targetPosition # <<>>
    /\ entities[id].unit.movement > 0
          \/ entities[id].position = entities[id].targetPosition[1]
    /\ entities' = [entities EXCEPT
          ![id].targetPosition = <<>>,
          ![id].position = entities[id].targetPosition[1],
          ![id].unit = OnMovementComplete(@)]
    /\ UNCHANGED <<players, currentTurn, selectedEntity>>

\* Unit.move and Unit.resetTurn called on the component itself
UnitMoveCall(id) ==
    /\ id \in DOMAIN entities
    /\ entities' = [entities EXCEPT ![id].unit = UnitMove(@)]
    /\ UNCHANGED <<players, currentTurn, selectedEntity>>

ResetTurnCall(id) ==
    /\ id \in DOMAIN entities
    /\ entities' = [entities EXCEPT ![id].unit = ResetTurn(@)]
    /\ UNCHANGED <<players, currentTurn, selectedEntity>>

----------------------------------------------------------------------------
(* Combat: CombatSystem.performCombat, CombatSystem.performRangedAttack and *)
(* GameEngine.performCombat, with the Unit methods they call                *)

\* at most this many attacks are ordered in one run
MaxCombats == 3

\* Unit.takeDamage(amount), amount in hundredths: the unit after the call
TakeDamage(unit, amount) == [unit EXCEPT !.health = Max(0, @ - amount)]

\* Unit.takeDamage: the value returned (the unit is destroyed)
TakeDamageReturns(unit, amount) == unit.health - amount <= 0

LevelUp(unit) ==
    [unit EXCEPT !.level = @ + 1, !.attack = @ + 2, !.defense = @ + 1,
                 !.maxHealth = @ + Hundredths(10),
                 !.health = unit.maxHealth + Hundredths(10),
                 !.upgradeThreshold = (@ * 3) \div 2]

GainExperience(unit, amount) ==
    LET gained == [unit EXCEPT !.experience = @ + amount]
    IN IF gained.experience >= gained.upgradeThreshold THEN LevelUp(gained) ELSE gained

GetUnitSpecificBonus(unitType, targetUnitType) ==
    CASE unitType = "spearman" /\ targetUnitType = "cavalry" -> 5
      [] unitType = "archer" /\ targetUnitType = "warrior" -> 2
      [] unitType = "cavalry" /\ targetUnitType = "archer" -> 3
      [] OTHER -> 0

GetUnitDefenseBonus(unitType, attackerType) ==
    CASE unitType = "warrior" /\ attackerType = "archer" -> 2
      [] unitType = "archer" /\ attackerType = "warrior" -> 0 - 1
      [] OTHER -> 0

\* calculateAttackValue, in hundredths: the mock tile has terrainModifier 1.0,
\* a promoted unit has 20% more, the civilization bonus is 0
CalculateAttackValue(attacker, defender) ==
    (IF attacker.unit.promoted
       THEN (Hundredths(attacker.unit.attack) * 12) \div 10
       ELSE Hundredths(attacker.unit.attack))
      + Hundredths(GetUnitSpecificBonus(attacker.unit.type, defender.unit.type))

\* calculateDefenseValue, in hundredths: the mock tile has defenseBonus 0, the
\* entities carry no city, a promoted unit has 15% more
CalculateDefenseValue(defender, attacker) ==
    (IF defender.unit.promoted
       THEN (Hundredths(defender.unit.defense) * 115) \div 100
       ELSE Hundredths(defender.unit.defense))
      + Hundredths(GetUnitDefenseBonus(defender.unit.type, attacker.unit.type))

\* calculateExperienceGain: floor(min(strength * (1.5 or 1) * damage / maxHealth, 50))
CalculateExperienceGain(attacker, defender, damageDealt) ==
    LET strength == defender.unit.attack + defender.unit.defense
        halves == IF strength > attacker.unit.attack + attacker.unit.defense
                    THEN 3 ELSE 2
    IN  Min((strength * halves * damageDealt) \div (2 * defender.unit.maxHealth), 50)

GetDistanceBetween(entity1, entity2) ==
    Abs(entity1.position[1] - entity2.position[1])
      + Abs(entity1.position[2] - entity2.position[2])

IsValidAttack(es, attackerId, defenderId) ==
    /\ attackerId \in DOMAIN es
    /\ defenderId \in DOMAIN es
    /\ es[attackerId].unit.owner # es[defenderId].unit.owner
    /\ es[attackerId].unit.actionsRemaining > 0
    /\ GetDistanceBetween(es[attackerId], es[defenderId]) <= es[attackerId].unit.range

\* randomFactor = 1 + (Math.random() * 0.3 - 0.15) lies in [0.85, 1.15): the
\* percentages the model draws it from
RandomFactors == {85, 100, 114}

\* CombatSystem.performCombat accepts the pair
PerformCombatAccepts(es, attackerId, defenderId) ==
    /\ attackerId \in DOMAIN es
    /\ defenderId \in DOMAIN es
    /\ es[attackerId].unit.owner # es[defenderId].unit.owner

\* the damage CombatSystem.performCombat deals, in hundredths
RawDamage(es, attackerId, defenderId, factor) ==
    Max(Hundredths(1),
        (CalculateAttackValue(es[attackerId], es[defenderId]) * factor) \div 100
          - CalculateDefenseValue(es[defenderId], es[attackerId]))

\* the entities after an accepted CombatSystem.performCombat: the defender is
\* hit, the attacker gains experience, and with 30% chance is hit in return
PerformCombat(es, attackerId, defenderId, factor, counter) ==
    LET rawDamage == RawDamage(es, attackerId, defenderId, factor)
        counterDamage ==
            Max(Hundredths(1),
                (CalculateDefenseValue(es[defenderId], es[attackerId]) * 3) \div 10)
        hit == [es EXCEPT ![defenderId].unit = TakeDamage(@, rawDamage)]
        gained == [hit EXCEPT ![attackerId].unit =
                      GainExperience(@, CalculateExperienceGain(
                          es[attackerId], hit[defenderId], rawDamage))]
    IN  IF counter
          THEN [gained EXCEPT ![attackerId].unit = TakeDamage(@, counterDamage)]
          ELSE gained

CombatResult(op, attackerId, defenderId, success) ==
    <<[op |-> op, attacker |-> attackerId, defender |-> defenderId,
       success |-> success]>>

\* CombatSystem.performCombat(attacker, defender) on two entities of the engine
CombatSystemPerformCombat(attackerId, defenderId, factor, counter) ==
    /\ combats < MaxCombats
    /\ combats' = combats + 1
    /\ IF PerformCombatAccepts(entities, attackerId, defenderId)
         THEN /\ entities' = PerformCombat(entities, attackerId, defenderId, factor, counter)
              /\ combatResult' = CombatResult("performCombat", attackerId, defenderId, TRUE)
         ELSE /\ entities' = entities
              /\ combatResult' = CombatResult("performCombat", attackerId, defenderId, FALSE)
    /\ UNCHANGED <<players, currentTurn, selectedEntity>>

\* removeEntityById
RemoveEntityById(es, id) == [e \in DOMAIN es \ {id} |-> es[e]]

\* GameEngine.performCombat(attackerId, defenderId): the same fight; a destroyed
\* defender is removed from the entities
GameEnginePerformCombat(attackerId, defenderId, factor, counter) ==
    /\ combats < MaxCombats
    /\ combats' = combats + 1
    /\ IF PerformCombatAccepts(entities, attackerId, defenderId)
         THEN /\ entities' =
                   IF TakeDamageReturns(entities[defenderId].unit,
                         RawDamage(entities, attackerId, defenderId, factor))
                     THEN RemoveEntityById(
                             PerformCombat(entities, attackerId, defenderId, factor, counter),
                             defenderId)
                     ELSE PerformCombat(entities, attackerId, defenderId, factor, counter)
              /\ combatResult' = CombatResult("engineCombat", attackerId, defenderId, TRUE)
         ELSE /\ entities' = entities
              /\ combatResult' = CombatResult("engineCombat", attackerId, defenderId, FALSE)
    /\ UNCHANGED <<players, currentTurn, selectedEntity>>

\* the entities after an accepted CombatSystem.performRangedAttack: 75% of the
\* attack value, no counterattack, 70% of the experience, one action used
RangedAttack(es, attackerId, defenderId) ==
    LET rawDamage ==
            Max(Hundredths(1),
                (CalculateAttackValue(es[attackerId], es[defenderId]) * 75) \div 100
                  - CalculateDefenseValue(es[defenderId], es[attackerId]))
        hit == [es EXCEPT ![defenderId].unit = TakeDamage(@, rawDamage)]
        experienceGain ==
            (CalculateExperienceGain(es[attackerId], hit[defenderId], rawDamage) * 7)
               \div 10
    IN  [hit EXCEPT ![attackerId].unit =
            PerformAction(GainExperience(@, experienceGain))]

PerformRangedAttack(attackerId, defenderId) ==
    /\ combats < MaxCombats
    /\ combats' = combats + 1
    /\ IF IsValidAttack(entities, attackerId, defenderId)
         THEN /\ entities' = RangedAttack(entities, attackerId, defenderId)
              /\ combatResult' = CombatResult("rangedAttack", attackerId, defenderId, TRUE)
         ELSE /\ entities' = entities
              /\ combatResult' = CombatResult("rangedAttack", attackerId, defenderId, FALSE)
    /\ UNCHANGED <<players, currentTurn, selectedEntity>>

----------------------------------------------------------------------------
(* Hex coordinates: HexTile.hexRound, HexTile.distanceTo, HexTile.isAdjacent,*)
(* GameMap.hexDistance                                                      *)

\* fractional coordinates are counted in eighths: 8 * x
InEighths(n) == n * 8

\* Math.round of a number given in eighths: floor(x + 0.5), a tie goes up
MathRound(x) == (x + InEighths(1) \div 2) \div InEighths(1)

\* mutant: the third component is the one always recomputed
HexRound_AlwaysS(q, r) ==
    [q |-> MathRound(q), r |-> MathRound(r), s |-> -MathRound(q) - MathRound(r),
     recomputed |-> "s"]

\* hexRound(q, r), q and r in eighths: the integers returned, and which of
\* them the branch taken recomputed
HexRound(q, r) ==
    LET s == -q - r
        qi == MathRound(q)
        ri == MathRound(r)
        si == MathRound(s)
        qDiff == Abs(InEighths(qi) - q)
        rDiff == Abs(InEighths(ri) - r)
        sDiff == Abs(InEighths(si) - s)
    IN  IF qDiff > rDiff /\ qDiff > sDiff
          THEN [q |-> -ri - si, r |-> ri, s |-> si, recomputed |-> "q"]
        ELSE IF rDiff > sDiff
          THEN [q |-> qi, r |-> -qi - si, s |-> si, recomputed |-> "r"]
        ELSE [q |-> qi, r |-> ri, s |-> -qi - ri, recomputed |-> "s"]

\* HexTile.distanceTo before its division by 2
DistanceToHalves(tile, otherTile) ==
    Abs(tile.q - otherTile.q) + Abs(tile.r - otherTile.r) + Abs(tile.s - otherTile.s)

\* mutant: both differences may be 0
IsAdjacent_Self(tile, otherTile) ==
    /\ Abs(tile.q - otherTile.q) <= 1
    /\ Abs(tile.r - otherTile.r) <= 1
    /\ Abs(-tile.q - tile.r - otherTile.s) <= 1

\* HexTile.isAdjacent
IsAdjacent(tile, otherTile) ==
    LET dq == Abs(tile.q - otherTile.q)
        dr == Abs(tile.r - otherTile.r)
        ds == Abs(-tile.q - tile.r - otherTile.s)
    IN  (dq <= 1 /\ dr <= 1 /\ ds <= 1) /\ ~(dq = 0 /\ dr = 0)

\* the inputs: fractions up to MaxFraction whole units, cube coordinates with
\* q and r up to MaxCube from the origin
MaxFraction == 2
MaxCube == 1

Fractions == (0 - InEighths(MaxFraction))..InEighths(MaxFraction)
CubeCoords == ((0 - MaxCube)..MaxCube) \X ((0 - MaxCube)..MaxCube)

NoHexInput ==
    [kind |-> "none", q |-> 0, r |-> 0, a |-> <<0, 0>>, b |-> <<0, 0>>, c |-> <<0, 0>>]

\* a pair of fractions for hexRound
RoundInputs ==
    { [NoHexInput EXCEPT !.kind = "round", !.q = q, !.r = r] :
        q \in Fractions, r \in Fractions }

\* three cube coordinates a, b, c (s = -q - r), measured by the GameMap or by
\* HexTile objects
CoordInputs ==
    { [NoHexInput EXCEPT !.kind = k, !.a = a, !.b = b, !.c = c] :
        k \in {"GameMap", "HexTile"}, a \in CubeCoords, b \in CubeCoords,
        c \in CubeCoords }

\* the pairs a distance is asked for, in the order of the calls
DistancePairs == << <<"a", "b">>, <<"b", "a">>, <<"b", "c">>, <<"a", "c">> >>

CoordNamed(name) ==
    CASE name = "a" -> hexIn.a
      [] name = "b" -> hexIn.b
      [] OTHER -> hexIn.c

TileNamed(name) == NewHexTile(CoordNamed(name)[1], CoordNamed(name)[2], "grass")

HexRoundCall ==
    /\ hexIn.kind = "round"
    /\ hexOut = <<>>
    /\ hexOut' = <<HexRound(hexIn.q, hexIn.r)>>
    /\ UNCHANGED <<hexIn, gridCall>>

\* GameMap.hexDistance(q1, r1, q2, r2) on the next pair
HexDistanceCall ==
    /\ hexIn.kind = "GameMap"
    /\ Len(hexOut) < Len(DistancePairs)
    /\ LET from == CoordNamed(DistancePairs[Len(hexOut) + 1][1])
           to == CoordNamed(DistancePairs[Len(hexOut) + 1][2])
       IN  hexOut' = Append(hexOut,
                        [halves |-> HexDistanceHalves(from[1], from[2], to[1], to[2])])
    /\ UNCHANGED <<hexIn, gridCall>>

\* tile.distanceTo(otherTile) on the next pair
DistanceToCall ==
    /\ hexIn.kind = "HexTile"
    /\ Len(hexOut) < Len(DistancePairs)
    /\ LET tile == TileNamed(DistancePairs[Len(hexOut) + 1][1])
           otherTile == TileNamed(DistancePairs[Len(hexOut) + 1][2])
       IN  hexOut' = Append(hexOut, [halves |-> DistanceToHalves(tile, otherTile)])
    /\ UNCHANGED <<hexIn, gridCall>>

\* a.isAdjacent(b), after the distances
IsAdjacentCall ==
    /\ hexIn.kind = "HexTile"
    /\ Len(hexOut) = Len(DistancePairs)
    /\ hexOut' = Append(hexOut, [adjacent |-> IsAdjacent(TileNamed("a"), TileNamed("b"))])
    /\ UNCHANGED <<hexIn, gridCall>>

----------------------------------------------------------------------------
(* GameMap.getTile and GameMap.setTile                                      *)

\* getTile(q, r): <<>> is null
GetTile(ts, q, r) == IF <<q, r>> \in DOMAIN ts THEN <<ts[<<q, r>>]>> ELSE <<>>

\* mutant: the tile is stored wherever it is put
SetTile_Anywhere(ts, q, r, tile) ==
    [k \in DOMAIN ts \cup {<<q, r>>} |-> IF k = <<q, r>> THEN tile ELSE ts[k]]

\* setTile(q, r, tile): the grid after the call
SetTile(ts, q, r, tile) ==
    IF <<q, r>> \in DOMAIN ts THEN [ts EXCEPT ![<<q, r>>] = tile] ELSE ts

\* setTile(q, r, tile): the value returned
SetTileReturns(ts, q, r) == <<q, r>> \in DOMAIN ts

\* the coordinates asked for: those of the grid and some beside it
GridTargets == HexCoords \cup {<<2, 0>>, <<0, 1>>, <<-3, -1>>, <<2, 1>>}

\* the tiles handed to setTile: a mountain tile made for the origin, put
\* wherever the call says
TilesToSet(q, r) == {NewHexTile(0, 0, "mountain")}

GridCall(op, q, r, result) == <<[op |-> op, q |-> q, r |-> r, result |-> result]>>

GetTileCall(q, r) ==
    /\ gridCall' = GridCall("getTile", q, r, GetTile(tiles, q, r))
    /\ UNCHANGED <<tiles, hexIn, hexOut>>

SetTileCall(q, r, tile) ==
    /\ tiles' = SetTile(tiles, q, r, tile)
    /\ gridCall' = GridCall("setTile", q, r, SetTileReturns(tiles, q, r))
    /\ UNCHANGED <<hexIn, hexOut>>

\* the largest range getTilesInRange is asked for
MaxRange == 2

Ranges == -1..MaxRange

\* the centres asked for: inside the grid, on its corner, and two outside it
RangeCentres == {<<0, 0>>, <<-1, -1>>, <<-2, -1>>, <<2, 1>>, <<-3, -1>>}

\* the lower end of the dr loop: Math.max(-range, -dq-range)
DrFrom(dq, range) == Max(-range, -dq - range)

\* mutant: dr runs up to range whatever dq is
DrTo_Square(dq, range) == range

\* the upper end of the dr loop: Math.min(range, -dq+range)
DrTo(dq, range) == Min(range, -dq + range)

\* the two nested loops of getTilesInRange from (dq, dr) on; the tiles pushed
\* are named by the place in the grid they were read from
RECURSIVE TilesInRangeFrom(_, _, _, _, _, _, _)
TilesInRangeFrom(ts, centerQ, centerR, range, dq, dr, tilesInRange) ==
    IF dq > range THEN tilesInRange
    ELSE IF dr > DrTo(dq, range)
    THEN TilesInRangeFrom(ts, centerQ, centerR, range, dq + 1,
                          DrFrom(dq + 1, range), tilesInRange)
    ELSE LET q == centerQ + dq
             r == centerR + dr
         IN TilesInRangeFrom(ts, centerQ, centerR, range, dq, dr + 1,
                             IF GetTile(ts, q, r) # <<>>
                             THEN Append(tilesInRange, <<q, r>>)
                             ELSE tilesInRange)

GetTilesInRange(ts, centerQ, centerR, range) ==
    TilesInRangeFrom(ts, centerQ, centerR, range, -range, DrFrom(-range, range), <<>>)

GetTilesInRangeCall(centerQ, centerR, range) ==
    /\ gridCall' = GridCall("getTilesInRange", centerQ, centerR,
                            [range |-> range,
                             tiles |-> GetTilesInRange(tiles, centerQ, centerR, range)])
    /\ UNCHANGED <<tiles, hexIn, hexOut>>

----------------------------------------------------------------------------
(* The engine of index.js: gameState and endTurn                            *)

\* JavaScript's NaN, kept apart from every value the turn counter can
\* otherwise take; it is absorbing under + and %, and n % 0 is NaN
NaN == -1
JsPlus(a, b) == IF a = NaN \/ b = NaN THEN NaN ELSE a + b
JsRemainder(a, n) == IF a = NaN \/ n = NaN \/ n = 0 THEN NaN ELSE a % n

\* gameState.players of index.js: set to [] by the constructor, and no line
\* of the file adds to it
IndexPlayers == <<>>

\* endTurn of index.js
IndexEndTurn ==
    /\ indexTurn' = JsRemainder(JsPlus(indexTurn, 1), Len(IndexPlayers))
    /\ UNCHANGED <<tileVars, resource, genPc>>

----------------------------------------------------------------------------
(* Tiles on their own: Tile.setType, and the HexTile operations of map      *)
(* generation and play                                                      *)

\* at most this many operations are applied to the two tiles in one run
MaxTileOps == 3

\* the tiles GameEngine.initializeMap constructs
ConstructedTiles ==
    {NewTile("grass", 1), NewTile("water", 0), NewTile("mountain", 3), NewTile("forest", 2)}

TileTypes == {"grass", "forest", "mountain", "water"}

\* terrainTypes of generateMap
TerrainTypes == {"grass", "plains", "hills", "forest", "desert", "tundra", "mountain"}

\* the resources and improvements the tile operations are tried with
SomeResources == {"cows", "deer", "oil"}
SomeImprovements == {"farm", "quarry", "fort"}

TileSetType(type) ==
    /\ tileOps < MaxTileOps
    /\ tileOps' = tileOps + 1
    /\ tile2d' = SetType(tile2d, type)
    /\ UNCHANGED tile3d

\* tile.type = type; tile.setTerrainProperties(), as addRivers and
\* addWaterFeatures do
ConvertTerrain(t, type) == SetTerrainProperties([t EXCEPT !.type = type])

HexTileConvert(type) ==
    /\ tileOps < MaxTileOps
    /\ tileOps' = tileOps + 1
    /\ tile3d' = ConvertTerrain(tile3d, type)
    /\ UNCHANGED tile2d

HexTileAddResource(resourceName) ==
    /\ tileOps < MaxTileOps
    /\ tileOps' = tileOps + 1
    /\ tile3d' = AddResource(tile3d, resourceName)
    /\ UNCHANGED tile2d

HexTileAddImprovement(improvementName) ==
    /\ tileOps < MaxTileOps
    /\ tileOps' = tileOps + 1
    /\ tile3d' = AddImprovement(tile3d, improvementName)
    /\ UNCHANGED tile2d

----------------------------------------------------------------------------
(* GameMap.generateMap: terrain, then rivers, resources and lakes            *)

\* new GameMap(4, 4): a cut of the 20 x 20 default.  Like 20, the sides are
\* divisible by 4 and not by 3.
GenSize == [width |-> 4, height |-> 4]

GenQs == -(GenSize.width \div 2)..(GenSize.width \div 2 - 1)
GenRs == -(GenSize.height \div 2)..(GenSize.height \div 2 - 1)
GenCoords == GenQs \X GenRs

\* at most this many tiles pass the 15% roll of addResources
MaxRolls == 1

\* the terrain loops of generateMap; Math.random picks each tile's terrain, here
\* one terrain for the western columns and one for the eastern
GenTerrains ==
    {[c \in GenCoords |-> NewHexTile(c[1], c[2], IF c[1] < 0 THEN west ELSE east)] :
        west \in TerrainTypes, east \in TerrainTypes}

GenerateTerrain ==
    /\ genPc = "terrain"
    /\ tiles' \in GenTerrains
    /\ genPc' = "rivers"

\* Math.floor(Math.random() * m) for an integer m, Math.random() in [0, 1)
FloorOfRandomTimes(m) == IF m > 0 THEN 0..(m - 1) ELSE m..0

\* addRivers: r starts at -height/3 and goes up by one, so it is an integer
\* only when 3 divides the height; this.tiles[q][r] is undefined otherwise
RiverTiles(startQ) ==
    IF GenSize.height % 3 # 0 THEN {}
    ELSE {<<startQ + (r \div 3), r>> :
             r \in -(GenSize.height \div 3)..(GenSize.height \div 3 - 1)}

RiverStarts ==
    {f - GenSize.width \div 4 : f \in FloorOfRandomTimes(GenSize.width \div 2 - 2)}

AddRivers ==
    /\ genPc = "rivers"
    /\ \E starts \in SubsetsUpTo(RiverStarts, 3) \ {{}} :
          tiles' = [c \in DOMAIN tiles |->
                      IF \E startQ \in starts : c \in RiverTiles(startQ)
                      THEN ConvertTerrain(tiles[c], "river")
                      ELSE tiles[c]]
    /\ genPc' = "resources"

ResourceTypes ==
    {"cows", "sheep", "deer", "fish", "wheat", "stone", "iron", "coal", "oil",
     "gold_resource", "silver", "spices", "dyes", "ivory", "wine"}

\* the compatibility table of isResourceCompatible
AllowedTerrains(resourceType) ==
    CASE resourceType = "cows" -> {"grass", "plains"}
      [] resourceType = "sheep" -> {"hills", "grass"}
      [] resourceType = "deer" -> {"forest", "tundra"}
      [] resourceType = "fish" -> {"coast", "ocean", "river"}
      [] resourceType = "wheat" -> {"plains", "grass"}
      [] resourceType = "stone" -> {"hills", "mountain"}
      [] resourceType = "iron" -> {"hills", "mountain"}
      [] resourceType = "coal" -> {"hills", "mountain", "forest"}
      [] resourceType = "oil" -> {"desert", "tundra", "coast"}
      [] resourceType = "gold_resource" -> {"hills", "mountain"}
      [] resourceType = "silver" -> {"hills", "mountain"}
      [] resourceType = "spices" -> {"jungle", "forest"}
      [] resourceType = "dyes" -> {"jungle", "forest"}
      [] resourceType = "ivory" -> {"desert", "plains"}
      [] resourceType = "wine" -> {"grass", "plains"}

IsResourceCompatible(terrainType, resourceType) ==
    IF resourceType \in ResourceTypes
    THEN terrainType \in AllowedTerrains(resourceType)
    ELSE TRUE

\* addResources: rolled holds the tiles that passed the 15% roll, drawn[c] the
\* resource Math.random picked for c
AddResources ==
    /\ genPc = "resources"
    /\ \E rolled \in SubsetsUpTo(DOMAIN tiles, MaxRolls) :
       \E drawn \in [rolled -> ResourceTypes] :
          tiles' = [c \in DOMAIN tiles |->
                      IF /\ tiles[c].type \notin {"mountain", "ocean"}
                         /\ c \in rolled
                         /\ IsResourceCompatible(tiles[c].type, drawn[c])
                      THEN AddResource(tiles[c], drawn[c])
                      ELSE tiles[c]]
    /\ genPc' = "water"

\* the centres a lake may get on either axis
LakeCentres(side) == {f - side \div 4 + 2 : f \in FloorOfRandomTimes(side \div 2 - 4)}

\* the tiles one lake turns to coast
LakeTiles(centerQ, centerR) ==
    {c \in (centerQ - 2..centerQ + 2) \X (centerR - 2..centerR + 2) :
        HexDistance(centerQ, centerR, c[1], c[2]) <= 2}

\* addWaterFeatures: five lakes; their centres may coincide
AddWaterFeatures ==
    /\ genPc = "water"
    /\ \E centres \in SubsetsUpTo(LakeCentres(GenSize.width) \X LakeCentres(GenSize.height), 5) \ {{}} :
          tiles' = [c \in DOMAIN tiles |->
                      IF \E centre \in centres : c \in LakeTiles(centre[1], centre[2])
                      THEN ConvertTerrain(tiles[c], "coast")
                      ELSE tiles[c]]
    /\ genPc' = "done"

----------------------------------------------------------------------------
(* ResourceSystem (systems/ResourceSystem.js)                               *)

\* amounts of a resource are fractional (value + growthRate * delta * 0.01):
\* the model counts value and maxValue in thousandths, rates in tenths
Thousandths(n) == n * 1000

\* no resource entity
NoResource == [type |-> "none", value |-> 0, maxValue |-> 0, growthRate |-> 0]

\* the resources getResourceAtPosition hands out: gold at (5, 5), food at (8, 3)
MockResources ==
    {[type |-> "gold", value |-> Thousandths(100), maxValue |-> Thousandths(100),
      growthRate |-> 1],
     [type |-> "food", value |-> Thousandths(80), maxValue |-> Thousandths(80),
      growthRate |-> 2]}

\* the frame times (delta) the system is stepped with
Deltas == {0, 1000, 2500}

\* processResourceGeneration(entity, delta): the resource after the call
ProcessResourceGeneration(res, delta) ==
    IF res.value < res.maxValue
      THEN [res EXCEPT !.value = Min(res.maxValue, res.value + res.growthRate * delta)]
      ELSE res

CanCollectResource(unitType, res) ==
    CASE unitType = "worker" -> TRUE
      [] unitType = "settler" -> res.type \in {"food", "gold"}
      [] unitType = "scout" -> res.type \in {"food"}
      [] OTHER -> FALSE

\* getCollectionRate, in tenths: no technology bonus, no improvement on the
\* mock tile
GetCollectionRate(unitType) ==
    CASE unitType = "worker" -> 20
      [] unitType = "settler" -> 10
      [] unitType = "scout" -> 5
      [] OTHER -> 1

\* mutant: the amount is not capped to what is there
ActualAmount_Uncapped(unitType, res, deltaTime) == GetCollectionRate(unitType) * deltaTime

\* collectResource: actualAmount, in thousandths
ActualAmount(unitType, res, deltaTime) ==
    Min(GetCollectionRate(unitType) * deltaTime, res.value)

\* collectResource(unitEntity, resource, deltaTime): the resource after the call
CollectResource(unitType, res, deltaTime) ==
    IF CanCollectResource(unitType, res)
      THEN [res EXCEPT !.value = @ - ActualAmount(unitType, res, deltaTime)]
      ELSE res

ResourceGenerationStep(delta) ==
    /\ resource' = ProcessResourceGeneration(resource, delta)
    /\ UNCHANGED <<tileVars, indexTurn, genPc>>

CollectResourceStep(unitType, deltaTime) ==
    /\ resource' = CollectResource(unitType, resource, deltaTime)
    /\ UNCHANGED <<tileVars, indexTurn, genPc>>

----------------------------------------------------------------------------
(* The Unit objects on their own: the 2D Unit and the 3D Unit               *)

UnitTypes ==
    {"warrior", "archer", "scout", "settler", "worker", "spearman", "cavalry",
     "catapult"}

GetDefaultMovement3(type) ==
    CASE type = "warrior" -> 2
      [] type = "archer" -> 2
      [] type = "settler" -> 1
      [] type = "worker" -> 1
      [] type = "scout" -> 3
      [] type = "spearman" -> 2
      [] type = "cavalry" -> 4
      [] type = "catapult" -> 1
      [] OTHER -> 2

NewUnit3(type, owner) ==
    [type |-> type, owner |-> owner,
     movement |-> GetDefaultMovement3(type), maxMovement |-> GetDefaultMovement3(type),
     actionPoints |-> 2, maxActionPoints |-> 2]

MoveTo3(u) == IF u.movement > 0 THEN [u EXCEPT !.movement = @ - 1] ELSE u

PerformAction3(u) == IF u.actionPoints > 0 THEN [u EXCEPT !.actionPoints = @ - 1] ELSE u

ResetTurn3(u) ==
    [u EXCEPT !.actionPoints = u.maxActionPoints, !.movement = u.maxMovement]

NoReturn == <<>>

Call2d(op) ==
    <<[op |-> op, movement |-> unit2d.movement, actions |-> unit2d.actionsRemaining]>>
Call3d(op) ==
    <<[op |-> op, movement |-> unit3d.movement, actions |-> unit3d.actionPoints]>>

UnitMoveOp ==
    /\ unit2d' = UnitMove(unit2d)
    /\ returned' = <<unit2d.movement > 0>>
    /\ called' = Call2d("move")
    /\ UNCHANGED unit3d

UnitPerformAction ==
    /\ unit2d' = PerformAction(unit2d)
    /\ returned' = <<PerformActionReturns(unit2d)>>
    /\ called' = Call2d("performAction")
    /\ UNCHANGED unit3d

UnitResetTurn ==
    /\ unit2d' = ResetTurn(unit2d)
    /\ returned' = NoReturn
    /\ called' = Call2d("resetTurn")
    /\ UNCHANGED unit3d

\* MovementSystem.requestMovement accepted for a target at this distance
UnitRequestMovement(distance) ==
    /\ unit2d.movement >= distance
    /\ unit2d' = ConsumeMovementPoints(unit2d, distance)
    /\ returned' = <<TRUE>>
    /\ called' = Call2d("requestMovement")
    /\ UNCHANGED unit3d

UnitOnMovementComplete ==
    /\ unit2d' = OnMovementComplete(unit2d)
    /\ returned' = NoReturn
    /\ called' = Call2d("onMovementComplete")
    /\ UNCHANGED unit3d

Unit3MoveTo ==
    /\ unit3d' = MoveTo3(unit3d)
    /\ returned' = <<unit3d.movement > 0>>
    /\ called' = Call3d("moveTo")
    /\ UNCHANGED unit2d

Unit3PerformAction ==
    /\ unit3d' = PerformAction3(unit3d)
    /\ returned' = <<unit3d.actionPoints > 0>>
    /\ called' = Call3d("performAction")
    /\ UNCHANGED unit2d

Unit3ResetTurn ==
    /\ unit3d' = ResetTurn3(unit3d)
    /\ returned' = NoReturn
    /\ called' = Call3d("resetTurn")
    /\ UNCHANGED unit2d

----------------------------------------------------------------------------
(* The specifications                                                      *)

PfIdle ==
    /\ map = NoMap
    /\ pfArgs = NoArgs
    /\ pfOpen = <<>>
    /\ pfNodes = NoNodes(NoMap)
    /\ pfClosed = {}
    /\ pfPc = "idle"
    /\ pfResult = NullResult
    /\ pfPops = <<>>

GmIdle ==
    /\ gmArgs = GmNoArgs
    /\ gmOpen = <<>>
    /\ gmNodes = GmNoNodes
    /\ gmClosed = {}
    /\ gmPc = "idle"
    /\ gmResult = NullResult
    /\ gmPops = <<>>
    /\ gmCost = <<>>

AllGrass == [c \in HexCoords |-> NewHexTile(c[1], c[2], "grass")]

CmdIdle ==
    /\ entities = CreateInitialUnits
    /\ players = <<NewPlayer(0), NewPlayer(1)>>
    /\ currentTurn = 0
    /\ selectedEntity = NoSelection

CombatIdle ==
    /\ combats = 0
    /\ combatResult = <<>>

TileIdle ==
    /\ tile2d = GrassTile
    /\ tile3d = NewHexTile(0, 0, "grass")
    /\ tileOps = 0

RestIdle ==
    /\ TileIdle
    /\ resource = NoResource
    /\ indexTurn = 0
    /\ genPc = "done"

HexIdle ==
    /\ hexIn = NoHexInput
    /\ hexOut = <<>>
    /\ gridCall = <<>>

UnitIdle ==
    /\ CombatIdle
    /\ RestIdle
    /\ HexIdle
    /\ unit2d = NewUnit("warrior", 0)
    /\ unit3d = NewUnit3("warrior", 0)
    /\ returned = NoReturn
    /\ called = <<>>

PfInit ==
    /\ tiles = AllGrass
    /\ GmIdle
    /\ CmdIdle
    /\ UnitIdle
    /\ map \in Maps
    /\ pfArgs = NoArgs
    /\ pfOpen = <<>>
    /\ pfNodes = NoNodes(map)
    /\ pfClosed = {}
    /\ pfPc = "idle"
    /\ pfResult = NullResult
    /\ pfPops = <<>>

PfNext ==
    \/ /\ \E start \in Starts, goal \in Goals, maxMovement \in Budgets :
            StartFindPath(start, goal, maxMovement)
       /\ UNCHANGED <<gmVars, cmdVars, unitVars, combatVars, hexVars, restVars>>
    \/ SearchStep /\ UNCHANGED <<gmVars, cmdVars, unitVars, combatVars, hexVars, restVars>>
    \/ SearchExhausted /\ UNCHANGED <<gmVars, cmdVars, unitVars, combatVars, hexVars, restVars>>
    \/ FindPathReturn /\ UNCHANGED <<gmVars, cmdVars, unitVars, combatVars, hexVars, restVars>>

SpecPF == PfInit /\ [][PfNext]_vars

GmInit ==
    /\ tiles \in HexMaps
    /\ GmIdle
    /\ PfIdle
    /\ CmdIdle
    /\ UnitIdle

GmNext ==
    \/ /\ \E startKey \in HexStarts, endKey \in HexCoords, t \in UnitMovementTypes :
            StartGmFindPath(startKey, endKey, t)
       /\ UNCHANGED <<pfVars, cmdVars, unitVars, combatVars, hexVars, restVars>>
    \/ /\ \E fromKey \in HexStarts, toKey \in HexCoords, t \in UnitMovementTypes :
            GetMovementCostCall(fromKey, toKey, t)
       /\ UNCHANGED <<pfVars, cmdVars, unitVars, combatVars, hexVars, restVars>>
    \/ GmSearchStep /\ UNCHANGED <<pfVars, cmdVars, unitVars, combatVars, hexVars, restVars>>
    \/ GmSearchExhausted /\ UNCHANGED <<pfVars, cmdVars, unitVars, combatVars, hexVars, restVars>>
    \/ GmFindPathReturn /\ UNCHANGED <<pfVars, cmdVars, unitVars, combatVars, hexVars, restVars>>

SpecGM == GmInit /\ [][GmNext]_vars

CmdInit ==
    /\ map = CmdMap
    /\ pfArgs = NoArgs
    /\ pfOpen = <<>>
    /\ pfNodes = NoNodes(map)
    /\ pfClosed = {}
    /\ pfPc = "idle"
    /\ pfResult = NullResult
    /\ pfPops = <<>>
    /\ tiles = AllGrass
    /\ GmIdle
    /\ entities = CreateInitialUnits
    /\ players \in PlayerSetups
    /\ currentTurn = 0
    /\ selectedEntity = NoSelection
    /\ UnitIdle

CmdNext ==
    \/ /\ \E unitId \in CommandIds, to \in CmdTargets :
            MoveUnit(unitId, to[1], to[2])
       /\ UNCHANGED <<pfVars, gmVars, unitVars, combatVars, hexVars, restVars>>
    \/ EndCurrentTurn /\ UNCHANGED <<pfVars, gmVars, unitVars, combatVars, hexVars, restVars>>
    \/ (\E id \in EntityIds : SelectEntity(id)) /\ UNCHANGED <<pfVars, gmVars, unitVars, combatVars, hexVars, restVars>>
    \/ /\ \E to \in CmdTargets : MoveSelectedUnit(to[1], to[2])
       /\ UNCHANGED <<pfVars, gmVars, unitVars, combatVars, hexVars, restVars>>
    \/ /\ \E id \in EntityIds, to \in CmdTargets : RequestMovement(id, to[1], to[2])
       /\ UNCHANGED <<pfVars, gmVars, unitVars, combatVars, hexVars, restVars>>
    \/ (\E id \in EntityIds : ArriveAtDestination(id)) /\ UNCHANGED <<pfVars, gmVars, unitVars, combatVars, hexVars, restVars>>
    \/ (\E id \in EntityIds : UnitMoveCall(id)) /\ UNCHANGED <<pfVars, gmVars, unitVars, combatVars, hexVars, restVars>>
    \/ (\E id \in EntityIds : ResetTurnCall(id)) /\ UNCHANGED <<pfVars, gmVars, unitVars, combatVars, hexVars, restVars>>

SpecCmd == CmdInit /\ [][CmdNext]_vars

\* distances a movement request may cover
RequestDistances == 0..3

UnitInit ==
    /\ PfIdle
    /\ tiles = AllGrass
    /\ GmIdle
    /\ CmdIdle
    /\ CombatIdle
    /\ RestIdle
    /\ HexIdle
    /\ unit2d \in {NewUnit(t, 0) : t \in UnitTypes}
    /\ unit3d \in {NewUnit3(t, 0) : t \in UnitTypes}
    /\ returned = NoReturn
    /\ called = <<>>

UnitNext ==
    \/ UnitMoveOp /\ UNCHANGED <<pfVars, gmVars, cmdVars, combatVars, hexVars, restVars>>
    \/ UnitPerformAction /\ UNCHANGED <<pfVars, gmVars, cmdVars, combatVars, hexVars, restVars>>
    \/ UnitResetTurn /\ UNCHANGED <<pfVars, gmVars, cmdVars, combatVars, hexVars, restVars>>
    \/ (\E d \in RequestDistances : UnitRequestMovement(d))
          /\ UNCHANGED <<pfVars, gmVars, cmdVars, combatVars, hexVars, restVars>>
    \/ UnitOnMovementComplete /\ UNCHANGED <<pfVars, gmVars, cmdVars, combatVars, hexVars, restVars>>
    \/ Unit3MoveTo /\ UNCHANGED <<pfVars, gmVars, cmdVars, combatVars, hexVars, restVars>>
    \/ Unit3PerformAction /\ UNCHANGED <<pfVars, gmVars, cmdVars, combatVars, hexVars, restVars>>
    \/ Unit3ResetTurn /\ UNCHANGED <<pfVars, gmVars, cmdVars, combatVars, hexVars, restVars>>

SpecUnit == UnitInit /\ [][UnitNext]_vars

\* the fighters: a warrior and an archer of one player beside a scout of the
\* other, each within one tile of the scout
CombatUnits ==
    (0 :> NewEntity("warrior", 0, 1, 0)) @@ (1 :> NewEntity("scout", 1, 1, 1))
      @@ (2 :> NewEntity("archer", 0, 0, 1))

CombatInit ==
    /\ PfIdle
    /\ tiles = AllGrass
    /\ GmIdle
    /\ UnitIdle
    /\ entities = CombatUnits
    /\ players = <<NewPlayer(0), NewPlayer(1)>>
    /\ currentTurn = 0
    /\ selectedEntity = NoSelection

CombatNext ==
    \/ /\ \E a \in DOMAIN CombatUnits \cup {7}, d \in DOMAIN CombatUnits,
             factor \in RandomFactors, counter \in BOOLEAN :
            CombatSystemPerformCombat(a, d, factor, counter)
       /\ UNCHANGED <<pfVars, gmVars, unitVars, hexVars, restVars>>
    \/ /\ \E a \in DOMAIN CombatUnits \cup {7}, d \in DOMAIN CombatUnits,
             factor \in RandomFactors, counter \in BOOLEAN :
            GameEnginePerformCombat(a, d, factor, counter)
       /\ UNCHANGED <<pfVars, gmVars, unitVars, hexVars, restVars>>
    \/ /\ \E a \in DOMAIN CombatUnits \cup {7}, d \in DOMAIN CombatUnits :
            PerformRangedAttack(a, d)
       /\ UNCHANGED <<pfVars, gmVars, unitVars, hexVars, restVars>>
    \/ /\ \E id \in DOMAIN CombatUnits : ResetTurnCall(id)
       /\ UNCHANGED <<pfVars, gmVars, unitVars, combatVars, hexVars, restVars>>

SpecCombat == CombatInit /\ [][CombatNext]_vars

HexInit ==
    /\ PfIdle
    /\ tiles = AllGrass
    /\ GmIdle
    /\ CmdIdle
    /\ CombatIdle
    /\ RestIdle
    /\ unit2d = NewUnit("warrior", 0)
    /\ unit3d = NewUnit3("warrior", 0)
    /\ returned = NoReturn
    /\ called = <<>>
    /\ hexIn \in RoundInputs \cup CoordInputs
    /\ hexOut = <<>>
    /\ gridCall = <<>>

HexNext ==
    \/ HexRoundCall /\ UNCHANGED <<pfVars, gmVars, cmdVars, unitVars, combatVars, restVars>>
    \/ HexDistanceCall /\ UNCHANGED <<pfVars, gmVars, cmdVars, unitVars, combatVars, restVars>>
    \/ DistanceToCall /\ UNCHANGED <<pfVars, gmVars, cmdVars, unitVars, combatVars, restVars>>
    \/ IsAdjacentCall /\ UNCHANGED <<pfVars, gmVars, cmdVars, unitVars, combatVars, restVars>>

SpecHex == HexInit /\ [][HexNext]_vars

GridInit ==
    /\ PfIdle
    /\ tiles = AllGrass
    /\ GmIdle
    /\ CmdIdle
    /\ UnitIdle

GridNext ==
    \/ /\ \E k \in GridTargets : GetTileCall(k[1], k[2])
       /\ UNCHANGED <<pfVars, cmdVars, unitVars, combatVars, restVars>>
       /\ UNCHANGED <<gmArgs, gmOpen, gmNodes, gmClosed, gmPc, gmResult, gmPops, gmCost>>
    \/ /\ \E k \in GridTargets : \E tile \in TilesToSet(k[1], k[2]) :
            SetTileCall(k[1], k[2], tile)
       /\ UNCHANGED <<pfVars, cmdVars, unitVars, combatVars, restVars>>
       /\ UNCHANGED <<gmArgs, gmOpen, gmNodes, gmClosed, gmPc, gmResult, gmPops, gmCost>>
    \/ /\ \E k \in RangeCentres, range \in Ranges : GetTilesInRangeCall(k[1], k[2], range)
       /\ UNCHANGED <<pfVars, cmdVars, unitVars, combatVars, restVars>>
       /\ UNCHANGED <<gmArgs, gmOpen, gmNodes, gmClosed, gmPc, gmResult, gmPops, gmCost>>

SpecGrid == GridInit /\ [][GridNext]_vars

TileInit ==
    /\ PfIdle
    /\ tiles = AllGrass
    /\ GmIdle
    /\ CmdIdle
    /\ CombatIdle
    /\ HexIdle
    /\ unit2d = NewUnit("warrior", 0)
    /\ unit3d = NewUnit3("warrior", 0)
    /\ returned = NoReturn
    /\ called = <<>>
    /\ tile2d \in ConstructedTiles
    /\ tile3d \in {NewHexTile(0, 0, type) : type \in TerrainTypes}
    /\ tileOps = 0
    /\ resource = NoResource
    /\ indexTurn = 0
    /\ genPc = "done"

TileOthers == <<pfVars, gmVars, cmdVars, unitVars, combatVars, hexVars, resource, indexTurn, genPc>>

TileNext ==
    \/ (\E type \in TileTypes : TileSetType(type)) /\ UNCHANGED TileOthers
    \/ (\E type \in {"river", "coast"} : HexTileConvert(type)) /\ UNCHANGED TileOthers
    \/ (\E name \in SomeResources : HexTileAddResource(name)) /\ UNCHANGED TileOthers
    \/ (\E name \in SomeImprovements : HexTileAddImprovement(name)) /\ UNCHANGED TileOthers

SpecTile == TileInit /\ [][TileNext]_vars

ResourceInit ==
    /\ PfIdle
    /\ tiles = AllGrass
    /\ GmIdle
    /\ CmdIdle
    /\ CombatIdle
    /\ HexIdle
    /\ unit2d = NewUnit("warrior", 0)
    /\ unit3d = NewUnit3("warrior", 0)
    /\ returned = NoReturn
    /\ called = <<>>
    /\ TileIdle
    /\ resource \in MockResources
    /\ indexTurn = 0
    /\ genPc = "done"

ResourceOthers == <<pfVars, gmVars, cmdVars, unitVars, combatVars, hexVars>>

ResourceNext ==
    \/ (\E delta \in Deltas : ResourceGenerationStep(delta)) /\ UNCHANGED ResourceOthers
    \/ /\ \E unitType \in {"worker", "settler", "scout", "warrior"}, delta \in Deltas :
            CollectResourceStep(unitType, delta)
       /\ UNCHANGED ResourceOthers

SpecResource == ResourceInit /\ [][ResourceNext]_vars

\* new GameMap(...): the constructor has set this.tiles = [] and calls generateMap
GenInit ==
    /\ PfIdle
    /\ tiles = <<>>
    /\ GmIdle
    /\ CmdIdle
    /\ CombatIdle
    /\ HexIdle
    /\ unit2d = NewUnit("warrior", 0)
    /\ unit3d = NewUnit3("warrior", 0)
    /\ returned = NoReturn
    /\ called = <<>>
    /\ TileIdle
    /\ resource = NoResource
    /\ indexTurn = 0
    /\ genPc = "terrain"

GenOthers ==
    <<pfVars, gmArgs, gmOpen, gmNodes, gmClosed, gmPc, gmResult, gmPops, gmCost,
      cmdVars, unitVars, combatVars, hexVars, tileVars, resource, indexTurn>>

GenNext ==
    \/ GenerateTerrain /\ UNCHANGED GenOthers
    \/ AddRivers /\ UNCHANGED GenOthers
    \/ AddResources /\ UNCHANGED GenOthers
    \/ AddWaterFeatures /\ UNCHANGED GenOthers

SpecGen == GenInit /\ [][GenNext]_vars

\* end_turn and move_unit commands reaching either engine
TurnInit == CmdInit

TurnNext ==
    \/ IndexEndTurn /\ UNCHANGED <<pfVars, gmVars, cmdVars, unitVars, combatVars, hexVars>>
    \/ EndCurrentTurn /\ UNCHANGED <<pfVars, gmVars, unitVars, combatVars, hexVars, restVars>>
    \/ /\ \E unitId \in CommandIds, to \in CmdTargets :
            MoveUnit(unitId, to[1], to[2])
       /\ UNCHANGED <<pfVars, gmVars, unitVars, combatVars, hexVars, restVars>>

SpecTurn == TurnInit /\ [][TurnNext]_vars

\* both searches side by side.  game.js builds a Map and no GameMap, index.js
\* a GameMap and no Map: the absent one stays at NoMap or AllGrass.  findPath is
\* synchronous, so one call runs from its first line to its return before
\* another begins.  The hex maps here hold grass, mountains (impassable) and
\* quarried coast (two movement points).
SearchHexMaps ==
    {m \in HexMaps : \A c \in HexCoords :
        /\ m[c].type # "ocean"
        /\ m[c].type = "coast" => m[c].movementCost = 2}

SearchInit ==
    \/ PfInit
    \/ GmInit /\ tiles \in SearchHexMaps

SearchOthers == <<cmdVars, unitVars, combatVars, hexVars, restVars>>

SearchNext ==
    \/ tiles = AllGrass /\ GmIdle /\ PfNext
    \/ /\ map = NoMap /\ pfPc = "idle"
       /\ \E startKey \in HexStarts, endKey \in HexCoords, t \in UnitMovementTypes :
            StartGmFindPath(startKey, endKey, t)
       /\ UNCHANGED <<pfVars, SearchOthers>>
    \/ GmSearchStep /\ UNCHANGED <<pfVars, SearchOthers>>
    \/ GmSearchExhausted /\ UNCHANGED <<pfVars, SearchOthers>>
    \/ GmFindPathReturn /\ UNCHANGED <<pfVars, SearchOthers>>

SpecSearch == SearchInit /\ [][SearchNext]_vars

----------------------------------------------------------------------------
(* What the claims about Pathfinder.findPath speak of                      *)

\* the movement cost of a tile, as the claims count it (terrainModifier || 1)
TileCost(m, c) ==
    IF m.tiles[c].terrainModifier = 0 THEN 1 ELSE m.tiles[c].terrainModifier

Enterable(m, c) == m.loaded /\ c \in CoordsOf(m) /\ m.tiles[c].walkable

Adjacent4(a, b) == Abs(a[1] - b[1]) + Abs(a[2] - b[2]) = 1

\* cheapest cost of a 4-neighbour route over walkable in-bounds tiles from start:
\* the least fixed point of d[c] = min(d[c], d[p] + cost(c)) over adjacent p
RECURSIVE CheapestFrom(_, _, _)
CheapestFrom(m, D, d) ==
    LET Via(c) == {Plus(d[p], TileCost(m, c)) : p \in {p \in D : Adjacent4(p, c)}}
        Best(c) == IF Enterable(m, c)
                   THEN CHOOSE v \in Via(c) \cup {d[c]} :
                          \A w \in Via(c) \cup {d[c]} : v <= w
                   ELSE d[c]
        next == [c \in D |-> Best(c)]
    IN IF next = d THEN d ELSE CheapestFrom(m, D, next)

CheapestCost(m, start, goal) ==
    LET D == CoordsOf(m) \cup {start, goal}
        d0 == [c \in D |-> IF c = start THEN 0 ELSE Infinity]
    IN CheapestFrom(m, D, d0)[goal]

RECURSIVE PathCost(_, _, _)
PathCost(m, path, i) ==
    IF i > Len(path) THEN 0
    ELSE Plus(IF Enterable(m, path[i]) THEN TileCost(m, path[i]) ELSE Infinity,
              PathCost(m, path, i + 1))

PfStart == <<pfArgs.startX, pfArgs.startY>>
PfGoal == <<pfArgs.endX, pfArgs.endY>>
PfReturned == pfPc = "done"

\* Scenario A of C1: (0,0) to (4,4) round the mountain at (2,2) takes 8 steps of
\* total cost 8
ScenarioAResult ==
    (PfReturned /\ map = ScenarioA /\ PfStart = <<0, 0>> /\ PfGoal = <<4, 4>>
       /\ pfArgs.maxMovement = NoBudget) =>
        /\ ~pfResult.isNull
        /\ Len(pfResult.path) = 8
        /\ PathCost(map, pfResult.path, 1) = 8
        /\ \A i \in 1..Len(pfResult.path) : pfResult.path[i] # <<2, 2>>

\* C1: without a budget, whenever a route from start to the goal exists, findPath
\* returns a path ending at the goal whose total cost is the minimum over all routes
\* (every walkable tile of every map costs at least 1); in Scenario A that is the
\* 8-step path of cost 8 round the mountain.
C1_LeastCostPath ==
    /\ (PfReturned /\ pfArgs.maxMovement = NoBudget) =>
          LET best == CheapestCost(map, PfStart, PfGoal)
          IN best < Infinity =>
               /\ ~pfResult.isNull
               /\ PathCost(map, pfResult.path, 1) = best
               /\ (PfStart # PfGoal => pfResult.path[Len(pfResult.path)] = PfGoal)
    /\ \A c \in CoordsOf(map) : map.tiles[c].walkable => TileCost(map, c) >= 1
    /\ ScenarioAResult

\* a search that had to go round an obstacle or a costly tile: the cheapest route
\* costs more than the Manhattan distance
C1_Witness ==
    /\ PfReturned /\ pfArgs.maxMovement = NoBudget /\ ~pfResult.isNull
    /\ Len(pfResult.path) > Heuristic(PfStart[1], PfStart[2], PfGoal[1], PfGoal[2])
    /\ \E c \in CoordsOf(map) : map.tiles[c].terrainModifier = 3 /\ map.tiles[c].walkable

\* C2: with a budget, a returned path costs at most the budget and null is returned
\* exactly when no route within the budget exists; so canReach (path # null) holds
\* iff the destination is the unit's own tile or the cheapest route is affordable.
C2_BudgetedPath ==
    (PfReturned /\ pfArgs.maxMovement # NoBudget) =>
        LET budget == pfArgs.maxMovement[1]
            best == CheapestCost(map, PfStart, PfGoal)
            canReach == ~pfResult.isNull
        IN /\ (~pfResult.isNull => PathCost(map, pfResult.path, 1) <= budget)
           /\ (pfResult.isNull <=> best > budget)
           /\ (canReach <=> (PfStart = PfGoal \/ best <= budget))

\* a budget that prunes: some route exists, but none within the budget
C2_Witness ==
    /\ PfReturned /\ pfArgs.maxMovement # NoBudget /\ pfResult.isNull
    /\ pfPops # <<>>
    /\ CheapestCost(map, PfStart, PfGoal) < Infinity

\* C4: with start # goal, a goal outside the map or on an unwalkable tile gives null,
\* whatever the map and the budget.
C4_BadGoalIsNull ==
    (PfReturned /\ PfStart # PfGoal /\ ~Enterable(map, PfGoal)) => pfResult.isNull

\* a budgeted query for an unwalkable tile of the map, answered null
C4_Witness ==
    /\ PfReturned /\ PfStart # PfGoal /\ map.loaded
    /\ PfGoal \in CoordsOf(map) /\ ~map.tiles[PfGoal].walkable
    /\ pfArgs.maxMovement # NoBudget
    /\ pfResult.isNull

----------------------------------------------------------------------------
(* What the claims about GameMap speak of                                  *)

GmReturned == gmPc = "done"
GmStart == gmArgs.startKey
GmEnd == gmArgs.endKey

\* C3: a naval mover gets null for every destination other than the start on a map
\* of land tiles only, and no path it gets enters a tile that is neither ocean nor
\* coast.
C3_NavalStaysOffLand ==
    (GmReturned /\ gmArgs.unitMovementType = "naval") =>
        /\ ((\A c \in HexCoords : tiles[c].type = "grass") /\ GmStart # GmEnd)
              => gmResult.isNull
        /\ ~gmResult.isNull =>
              \A i \in 1..Len(gmResult.path) :
                 gmResult.path[i] # GmStart =>
                    tiles[gmResult.path[i]].type \in {"ocean", "coast"}

\* C5: a returned path lists the tiles from the start exclusive to the destination
\* inclusive, and findPath(start, start) returns the empty path, for both
\* Pathfinder.findPath and GameMap.findPath.
C5_PathExcludesStart ==
    /\ (GmReturned /\ ~gmResult.isNull) =>
          /\ \A i \in 1..Len(gmResult.path) : gmResult.path[i] # GmStart
          /\ GmStart = GmEnd => gmResult.path = <<>>
          /\ GmStart # GmEnd => gmResult.path[Len(gmResult.path)] = GmEnd
    /\ (PfReturned /\ ~pfResult.isNull) =>
          /\ \A i \in 1..Len(pfResult.path) : pfResult.path[i] # PfStart
          /\ PfStart = PfGoal => pfResult.path = <<>>
          /\ PfStart # PfGoal => pfResult.path[Len(pfResult.path)] = PfGoal

\* C6: for a land mover getMovementCost is the destination's movement cost whatever
\* the tile moved from, and Infinity when the destination is impassable.
C6_LandCost ==
    (gmCost # <<>> /\ gmCost[1].type = "infantry") =>
        LET toTile == tiles[gmCost[1].to]
        IN /\ \A fromKey \in HexCoords :
                 GmGetMovementCost(tiles[fromKey], toTile, "infantry") = gmCost[1].cost
           /\ toTile.passable => gmCost[1].cost = toTile.movementCost
           /\ ~toTile.passable => gmCost[1].cost = Infinity

\* C7: for a naval mover getMovementCost is exactly 1 on ocean and coast and
\* Infinity on every other terrain kind.
C7_NavalCost ==
    (gmCost # <<>> /\ gmCost[1].type = "naval") =>
        LET toTile == tiles[gmCost[1].to]
        IN IF toTile.type \in {"ocean", "coast"}
           THEN gmCost[1].cost = 1
           ELSE gmCost[1].cost = Infinity

----------------------------------------------------------------------------
(* What the claims about the command layer speak of                        *)

\* a route over walkable in-bounds tiles from the unit's tile to `to` that costs
\* no more than the unit's remaining movement points
RouteWithinMovement(entity, to) ==
    CheapestCost(map, entity.position, to) <= entity.unit.movement

\* C8: moveUnit, requestMovement and moveSelectedUnit apply a request only if a
\* route over walkable in-bounds tiles to the destination exists within the unit's
\* remaining movement points; otherwise position and movement points (and the
\* movement order) are left unchanged.
C8_MoveOnlyAlongRoute ==
    [][\A id \in EntityIds, to \in CmdTargets :
          ( /\ ~RouteWithinMovement(entities[id], to)
            /\ \/ MoveUnit(id, to[1], to[2])
               \/ RequestMovement(id, to[1], to[2])
               \/ selectedEntity = <<id>> /\ MoveSelectedUnit(to[1], to[2]) )
          => entities'[id] = entities[id]]_vars

\* C9: an accepted moveUnit, and a requestMovement followed by its arrival, take
\* from unit.movement exactly the cost of the route travelled (where there is a
\* route): the move or the request debits the cost of the route, the arrival
\* debits nothing more.
C9_DebitIsPathCost ==
    [][\A id \in EntityIds, to \in CmdTargets :
          LET before == entities[id].unit.movement
              after == entities'[id].unit.movement
              cost == CheapestCost(map, entities[id].position, to)
          IN /\ ( /\ MoveUnit(id, to[1], to[2])
                  /\ MoveUnitAccepts(entities, players, currentTurn, id, to[1], to[2])
                  /\ cost < Infinity )
                => after = before - cost
             /\ ( /\ RequestMovement(id, to[1], to[2])
                  /\ RequestMovementAccepts(entities, id, to[1], to[2])
                  /\ cost < Infinity )
                => after = before - cost
             /\ ArriveAtDestination(id) => after = before]_vars

\* C10: always 0 <= unit.movement <= unit.maxMovement, and unit.movement increases
\* only in a step that is a resetTurn of that unit (called directly or by
\* endCurrentTurn), under Unit.move, the three move commands, the arrival and
\* resetTurn in any order.
C10_MovementLedger ==
    /\ [](\A id \in EntityIds :
            /\ 0 <= entities[id].unit.movement
            /\ entities[id].unit.movement <= entities[id].unit.maxMovement)
    /\ [][\A id \in EntityIds :
            entities'[id].unit.movement > entities[id].unit.movement
            => /\ entities'[id].unit = ResetTurn(entities[id].unit)
               /\ ResetTurnCall(id) \/ EndCurrentTurn]_vars

\* a unit that has spent all its points on the way to another tile, in the turn of
\* the second player (after an endCurrentTurn that reset units)
C10_Witness ==
    /\ currentTurn = 1
    /\ \E id \in EntityIds :
          /\ entities[id].unit.movement = 0
          /\ entities[id].unit.maxMovement > 0
          /\ entities[id].position # CreateInitialUnits[id].position
          /\ entities[id].targetPosition = <<>>

\* C11: a move is authorised exactly when the total cost of its path is at most
\* the unit's remaining movement points: hasEnoughMovementPoints, and the check of
\* moveUnit for a unit of the current player, accept every cost <= movement and
\* reject every cost > movement.
C11_AuthorisedIffAffordable ==
    \A id \in EntityIds, to \in CmdTargets :
        LET affordable == RouteWithinMovement(entities[id], to)
        IN /\ HasEnoughMovementPoints(entities[id], to[1], to[2]) <=> affordable
           /\ entities[id].unit.owner = players[currentTurn + 1].id =>
                 (MoveUnitAccepts(entities, players, currentTurn, id, to[1], to[2])
                    <=> affordable)

\* C14: an end_turn resets the budgets of exactly the units whose owner's turn
\* starts with it (once per round, at the start of the owner's turn) and of no
\* other unit.
C14_ResetAtOwnersTurnStart ==
    [][EndCurrentTurn =>
         \A id \in EntityIds :
            IF entities[id].unit.owner = players[currentTurn' + 1].id
            THEN entities'[id].unit = ResetTurn(entities[id].unit)
            ELSE entities'[id].unit = entities[id].unit]_vars

----------------------------------------------------------------------------
(* What the claims about the Unit ledger speak of                          *)

\* C12: performAction returns true and takes one action point iff some remained,
\* else returns false and changes nothing; the remaining action points are never
\* negative under performAction and resetTurn in any order (2D Unit and 3D Unit).
C12_PerformActionLedger ==
    /\ [](unit2d.actionsRemaining >= 0 /\ unit3d.actionPoints >= 0)
    /\ [][UnitPerformAction =>
            IF unit2d.actionsRemaining > 0
            THEN /\ returned' = <<TRUE>>
                 /\ unit2d' = [unit2d EXCEPT !.actionsRemaining = @ - 1]
            ELSE /\ returned' = <<FALSE>>
                 /\ unit2d' = unit2d]_vars
    /\ [][Unit3PerformAction =>
            IF unit3d.actionPoints > 0
            THEN /\ returned' = <<TRUE>>
                 /\ unit3d' = [unit3d EXCEPT !.actionPoints = @ - 1]
            ELSE /\ returned' = <<FALSE>>
                 /\ unit3d' = unit3d]_vars

\* Scenario D: both units have used every action point and a further call has
\* returned false
C12_Witness ==
    /\ unit2d.actionsRemaining = 0
    /\ unit3d.actionPoints = 0
    /\ returned = <<FALSE>>
    /\ unit2d.movement = unit2d.maxMovement
    /\ unit3d.movement = unit3d.maxMovement

\* C13: resetTurn restores movement to maxMovement and the action points to their
\* configured maximum from any state, and resetTurn is the only operation on a unit
\* after which its movement points or its action points are larger than before.
C13_OnlyResetRestores ==
    /\ [][UnitResetTurn =>
            /\ unit2d'.movement = unit2d.maxMovement
            /\ unit2d'.actionsRemaining = NewUnit(unit2d.type, unit2d.owner).actionsRemaining]_vars
    /\ [][Unit3ResetTurn =>
            /\ unit3d'.movement = unit3d.maxMovement
            /\ unit3d'.actionPoints = unit3d.maxActionPoints]_vars
    /\ [][(\/ unit2d'.movement > unit2d.movement
           \/ unit2d'.actionsRemaining > unit2d.actionsRemaining) => UnitResetTurn]_vars
    /\ [][(\/ unit3d'.movement > unit3d.movement
           \/ unit3d'.actionPoints > unit3d.actionPoints) => Unit3ResetTurn]_vars

\* Scenario E: resetTurn has just found the 2D unit at movement 0 and actions 0 and
\* left it at its maxima, the 3D unit being spent
C13_Witness ==
    /\ called = <<[op |-> "resetTurn", movement |-> 0, actions |-> 0]>>
    /\ unit2d.movement = unit2d.maxMovement
    /\ unit2d.actionsRemaining = 1
    /\ unit3d.movement = 0
    /\ unit3d.actionPoints = 0

----------------------------------------------------------------------------
(* What the claims about combat speak of                                   *)

\* the health an entity has in es; a removed entity has none left
HealthIn(es, id) == IF id \in DOMAIN es THEN es[id].unit.health ELSE 0

\* C15: attacks are gated by action points.  In every step that orders an
\* attack (CombatSystem.performCombat, CombatSystem.performRangedAttack or
\* GameEngine.performCombat) between two entities: if the attacker has no
\* action point left the attack is rejected and the defender's health stays as
\* it was, and if the attack succeeds the attacker has one action point less
\* after it.
C15_AttacksNeedActionPoint ==
    [][combats' # combats =>
         LET attack == combatResult'[1]
             attacker == attack.attacker
             defender == attack.defender
         IN  (attacker \in DOMAIN entities /\ defender \in DOMAIN entities) =>
               /\ entities[attacker].unit.actionsRemaining <= 0 =>
                     /\ ~attack.success
                     /\ HealthIn(entities', defender) = HealthIn(entities, defender)
               /\ attack.success =>
                     entities'[attacker].unit.actionsRemaining
                        = entities[attacker].unit.actionsRemaining - 1]_vars

----------------------------------------------------------------------------
(* What the claims about hex coordinates speak of                          *)

\* how far Math.round moves a number given in eighths, in eighths
RoundingError(x) == Abs(InEighths(MathRound(x)) - x)

\* C16: for every pair of fractional inputs (q, r), hexRound returns integers
\* q', r', s' with q' + r' + s' = 0, and the component it recomputes from the
\* other two is one whose rounding error is the largest of the three.
C16_HexRoundOnPlane ==
    (hexIn.kind = "round" /\ hexOut # <<>>) =>
        LET rounded == hexOut[1]
            errors == [q |-> RoundingError(hexIn.q), r |-> RoundingError(hexIn.r),
                       s |-> RoundingError(-hexIn.q - hexIn.r)]
        IN  /\ rounded.q + rounded.r + rounded.s = 0
            /\ \A other \in {"q", "r", "s"} : errors[rounded.recomputed] >= errors[other]

\* hexRound has run on inputs whose three rounding errors all differ, the
\* largest being that of r
C16_Witness ==
    /\ hexIn.kind = "round"
    /\ hexOut # <<>>
    /\ hexOut[1].recomputed = "r"
    /\ RoundingError(hexIn.r) > RoundingError(-hexIn.q - hexIn.r)
    /\ RoundingError(-hexIn.q - hexIn.r) > RoundingError(hexIn.q)
    /\ RoundingError(hexIn.q) > 0

\* the distance results of the calls made on hexIn: a to b, b to a, b to c, a to c
DistanceAB == hexOut[1].halves
DistanceBA == hexOut[2].halves
DistanceBC == hexOut[3].halves
DistanceAC == hexOut[4].halves

Measured == hexIn.kind \in {"GameMap", "HexTile"} /\ Len(hexOut) >= Len(DistancePairs)

\* C17: the hex distance (HexTile.distanceTo, GameMap.hexDistance) satisfies
\* distance(a, a) = 0, distance(a, b) = distance(b, a) and
\* distance(a, c) <= distance(a, b) + distance(b, c) for all cube coordinates.
C17_DistanceIsMetric ==
    Measured =>
        /\ hexIn.a = hexIn.b => DistanceAB = 0
        /\ DistanceAB = DistanceBA
        /\ DistanceAC <= DistanceAB + DistanceBC

\* three different coordinates have been measured, b lying on a shortest way
\* from a to c
C17_Witness ==
    /\ Measured
    /\ DistanceAB > 0
    /\ DistanceBC > 0
    /\ DistanceAC = DistanceAB + DistanceBC

\* an unobstructed grid around the coordinates measured
OpenGrid ==
    [k \in ((0 - MaxCube - 1)..(MaxCube + 1)) \X ((0 - MaxCube - 1)..(MaxCube + 1)) |->
        NewHexTile(k[1], k[2], "grass")]

\* the keys one step of getAdjacentTiles away from a set of keys
OneStepFrom(keys) ==
    UNION { LET adjacent == GetAdjacentTiles(OpenGrid, OpenGrid[k])
            IN  { TileKey(adjacent[i]) : i \in 1..Len(adjacent) } : k \in keys }

\* the least number of steps after which `to' is reached, `reached' being the
\* keys reached in `n' steps and `last' those first reached in the n-th
RECURSIVE StepsFrom(_, _, _, _)
StepsFrom(reached, last, to, n) ==
    IF to \in reached THEN n
    ELSE IF last = {} THEN Infinity
    ELSE LET next == OneStepFrom(last) \ reached
         IN  StepsFrom(reached \cup next, next, to, n + 1)

MinSteps(from, to) == StepsFrom({from}, {from}, to, 0)

\* C18: for all cube coordinates a and b the hex distance (GameMap.hexDistance,
\* HexTile.distanceTo) is an integer, equal to the least number of single steps
\* along the six directions of getAdjacentTiles that lead from a to b on an
\* unobstructed grid.
C18_DistanceIsStepCount ==
    (hexIn.kind \in {"GameMap", "HexTile"} /\ Len(hexOut) = 1) =>
        /\ DistanceAB % 2 = 0
        /\ DistanceAB = 2 * MinSteps(hexIn.a, hexIn.b)

\* a distance of three steps has been measured
C18_Witness ==
    /\ hexIn.kind \in {"GameMap", "HexTile"}
    /\ Len(hexOut) = 1
    /\ MinSteps(hexIn.a, hexIn.b) = 3
    /\ DistanceAB = 6

\* C19: for two tiles whose coordinates satisfy q + r + s = 0, isAdjacent is
\* true iff the hex distance between them is exactly 1; it is false for the
\* tile itself and for every tile at distance 2 or more.
C19_AdjacentIffDistanceOne ==
    (hexIn.kind = "HexTile" /\ Len(hexOut) > Len(DistancePairs)) =>
        /\ TileNamed("a").q + TileNamed("a").r + TileNamed("a").s = 0
        /\ TileNamed("b").q + TileNamed("b").r + TileNamed("b").s = 0
        /\ hexOut[Len(hexOut)].adjacent <=> (DistanceAB = 2)
        /\ hexIn.a = hexIn.b => ~hexOut[Len(hexOut)].adjacent

\* isAdjacent has answered true for two tiles that differ in q and in s only
C19_Witness ==
    /\ hexIn.kind = "HexTile"
    /\ Len(hexOut) > Len(DistancePairs)
    /\ hexOut[Len(hexOut)].adjacent
    /\ hexIn.a[2] = hexIn.b[2]
    /\ DistanceAB = 2

----------------------------------------------------------------------------
(* What the claim about GameMap.getTile and setTile speaks of              *)

\* the grid generateMap lays out: q and r within the constructor's ranges
InGrid(q, r) == q \in HexQs /\ r \in HexRs

\* C20: getTile returns null, and does not throw, for every coordinate that
\* has no tile (and the tile for one that has); setTile returns false and
\* leaves the whole grid unchanged for a coordinate outside the grid, and
\* returns true and replaces only the tile at that coordinate for one inside.
C20_GetTileSetTile ==
    /\ [][\A k \in GridTargets : GetTileCall(k[1], k[2]) =>
            /\ tiles' = tiles
            /\ IF InGrid(k[1], k[2])
                 THEN gridCall'[1].result = <<tiles[k]>>
                 ELSE gridCall'[1].result = <<>>]_vars
    /\ [][\A k \in GridTargets : \A tile \in TilesToSet(k[1], k[2]) :
            SetTileCall(k[1], k[2], tile) =>
               IF InGrid(k[1], k[2])
                 THEN /\ gridCall'[1].result = TRUE
                      /\ DOMAIN tiles' = DOMAIN tiles
                      /\ tiles'[k] = tile
                      /\ \A other \in DOMAIN tiles \ {k} : tiles'[other] = tiles[other]
                 ELSE /\ gridCall'[1].result = FALSE
                      /\ tiles' = tiles]_vars

\* setTile has been refused outside a grid in which an earlier setTile put a
\* tile
C20_Witness ==
    /\ gridCall # <<>>
    /\ gridCall[1].op = "setTile"
    /\ gridCall[1].result = FALSE
    /\ ~InGrid(gridCall[1].q, gridCall[1].r)
    /\ \E k \in HexCoords : tiles[k].type = "mountain"

----------------------------------------------------------------------------
(* What the claims about single tiles speak of                             *)

\* a HexTile made with the terrain kind, the resource and the improvement of t
\* and nothing else in its past
FreshHexTile(t) ==
    LET made == NewHexTile(t.q, t.r, t.type)
        withResource == IF t.resource = "null" THEN made
                        ELSE AddResource(made, t.resource)
    IN  IF t.improvement = "null" THEN withResource
        ELSE AddImprovement(withResource, t.improvement)

\* C21: in every reachable state of a tile, its stored passability and
\* movement cost are what its current terrain kind and improvement determine:
\* they are those of a tile that setType gave this kind (Tile), and those of a
\* tile freshly made with this kind and improvement (HexTile).
C21_CostFollowsTerrain ==
    /\ tile2d.walkable = SetType(GrassTile, tile2d.type).walkable
    /\ tile2d.terrainModifier = SetType(GrassTile, tile2d.type).terrainModifier
    /\ tile3d.passable = FreshHexTile(tile3d).passable
    /\ tile3d.movementCost = FreshHexTile(tile3d).movementCost

\* C25: the yield vector of a HexTile always equals the base yield of its
\* current terrain kind plus the modifier of its resource plus the modifier of
\* its improvement, whatever addResource, addImprovement and terrain
\* conversions it has undergone.
C25_YieldIsSumOfParts ==
    \A yield \in {"food", "production", "gold", "science", "culture"} :
        tile3d[yield] = FreshHexTile(tile3d)[yield]

----------------------------------------------------------------------------
(* What the claim about ResourceSystem speaks of                           *)

----------------------------------------------------------------------------
(* What the later claims about the two searches speak of                   *)

\* the keys of the tiles getAdjacentTiles gives for the tile at key k
AdjacentKeys(k) ==
    LET adjacent == GetAdjacentTiles(tiles, tiles[k])
    IN  { TileKey(adjacent[i]) : i \in 1..Len(adjacent) }

\* the ocean tiles joined to those of `reached' by chains of adjacent ocean tiles
RECURSIVE OceanClosure(_)
OceanClosure(reached) ==
    LET more == { k \in HexCoords \ reached :
                    tiles[k].type = "ocean" /\ \E j \in reached : k \in AdjacentKeys(j) }
    IN  IF more = {} THEN reached ELSE OceanClosure(reached \cup more)

\* C23: a naval mover can cross ocean: GameMap.findPath(start, goal, 'naval')
\* returns a path whenever start and goal are joined by a chain of adjacent
\* ocean tiles.
C23_NavalCrossesOcean ==
    (/\ GmReturned
     /\ gmArgs.unitMovementType = "naval"
     /\ tiles[GmStart].type = "ocean"
     /\ GmEnd \in OceanClosure({GmStart})) => ~gmResult.isNull

\* C24: every non-null, non-empty path Pathfinder.findPath returns is a chain
\* of in-bounds walkable tiles: its first element is 4-adjacent to the start,
\* each later element is 4-adjacent to the one before it, no tile occurs
\* twice, the last element is the goal, and no unwalkable tile appears in it.
C24_PathIsWalkableChain ==
    (PfReturned /\ ~pfResult.isNull /\ pfResult.path # <<>>) =>
        LET path == pfResult.path
        IN  /\ Adjacent4(PfStart, path[1])
            /\ \A i \in 2..Len(path) : Adjacent4(path[i - 1], path[i])
            /\ \A i, j \in 1..Len(path) : i # j => path[i] # path[j]
            /\ path[Len(path)] = PfGoal
            /\ \A i \in 1..Len(path) :
                  /\ path[i] \in CoordsOf(map)
                  /\ map.tiles[path[i]].walkable

\* a path of three tiles or more has been returned on a map that holds an
\* unwalkable tile next to a tile of the path
C24_Witness ==
    /\ PfReturned
    /\ ~pfResult.isNull
    /\ Len(pfResult.path) >= 3
    /\ \E c \in CoordsOf(map) :
          /\ ~map.tiles[c].walkable
          /\ \E i \in 1..Len(pfResult.path) : Adjacent4(c, pfResult.path[i])

\* C26: findPath (Pathfinder.findPath and GameMap.findPath) terminates on every
\* finite grid: every tile is taken from the open set at most once, so the
\* loop runs at most once per tile, and the search ends either by popping the
\* goal and returning a path or by exhausting the open set and returning null.
NoRepeats(seq) == \A i, j \in 1..Len(seq) : i # j => seq[i] # seq[j]

C26_SearchTerminates ==
    /\ NoRepeats(pfPops)
    /\ Len(pfPops) <= Cardinality(CoordsOf(map))
    /\ (PfReturned /\ pfPops # <<>>) =>
          \/ pfPops[Len(pfPops)] = PfGoal /\ ~pfResult.isNull
          \/ pfOpen = <<>> /\ pfResult.isNull /\ \A i \in 1..Len(pfPops) : pfPops[i] # PfGoal
    /\ NoRepeats(gmPops)
    /\ Len(gmPops) <= Cardinality(HexCoords)
    /\ (GmReturned /\ gmPops # <<>>) =>
          \/ gmPops[Len(gmPops)] = GmEnd /\ ~gmResult.isNull
          \/ gmOpen = <<>> /\ gmResult.isNull /\ \A i \in 1..Len(gmPops) : gmPops[i] # GmEnd

\* a search has returned null after popping four tiles or more
C26_Witness ==
    \/ PfReturned /\ pfResult.isNull /\ Len(pfPops) >= 4
    \/ GmReturned /\ gmResult.isNull /\ Len(gmPops) >= 4

\* C27: getTilesInRange(centerQ, centerR, range) returns exactly the tiles
\* present in the grid whose hex distance from the centre is <= range, each of
\* them once, and nothing else; tiles of the range outside the grid are omitted.
WithinRange(centerQ, centerR, range) ==
    {k \in DOMAIN tiles : HexDistance(centerQ, centerR, k[1], k[2]) <= range}

C27_TilesInRange ==
    (gridCall # <<>> /\ gridCall[1].op = "getTilesInRange") =>
        LET call == gridCall[1]
            found == call.result.tiles
        IN  /\ {found[i] : i \in 1..Len(found)}
                  = WithinRange(call.q, call.r, call.result.range)
            /\ NoRepeats(found)

\* a call around a tile of the border: some tiles of the range are returned,
\* others lie outside the grid
C27_Witness ==
    /\ gridCall # <<>>
    /\ gridCall[1].op = "getTilesInRange"
    /\ gridCall[1].result.range = 2
    /\ Len(gridCall[1].result.tiles) >= 4
    /\ \E dq, dr \in -2..2 :
          /\ HexDistance(0, 0, dq, dr) <= 2
          /\ <<gridCall[1].q + dq, gridCall[1].r + dr>> \notin DOMAIN tiles

\* C28: gameState.currentTurn is always a valid index into gameState.players
\* and each end_turn advances it by exactly one modulo the number of players,
\* under any sequence of end_turn commands in either engine, also when no
\* player has been added.  With no player there is no index to be valid; the
\* counter is then asked only to remain a number.
ValidTurn(turn, ps) ==
    /\ turn # NaN
    /\ turn \in Nat
    /\ ps # <<>> => turn < Len(ps)

C28_TurnIsValidIndex ==
    /\ ValidTurn(indexTurn, IndexPlayers)
    /\ ValidTurn(currentTurn, players)

\* C29: after generateMap completes, every tile that carries a resource has a
\* terrain kind for which isResourceCompatible(terrain, resource) is true, and
\* no mountain or water tile carries a resource.
C29_ResourcesFitTerrain ==
    genPc = "done" =>
        \A c \in DOMAIN tiles :
            tiles[c].resource # "null" =>
                /\ IsResourceCompatible(tiles[c].type, tiles[c].resource)
                /\ tiles[c].type \notin {"mountain", "ocean"}

----------------------------------------------------------------------------
(* What the claim about whose units move_unit moves speaks of              *)

\* the unit of a move_unit command is missing or belongs to a player whose
\* turn it is not
NotMovable(unitId) ==
    \/ unitId \notin DOMAIN entities
    \/ entities[unitId].unit.owner # players[currentTurn + 1].id

\* C30: GameEngine.moveUnit moves a unit only when the unit belongs to the
\* player whose turn it is: a move_unit for a missing unit or for a unit of
\* another player returns false and changes neither the unit's position nor
\* its movement points, in every state reachable by move_unit and end_turn
\* commands; so no command moves a unit of a player whose turn it is not.
C30_OnlyCurrentPlayerMoves ==
    /\ [][\A unitId \in CommandIds, to \in CmdTargets :
            (NotMovable(unitId) /\ MoveUnit(unitId, to[1], to[2])) =>
                /\ ~MoveUnitAccepts(entities, players, currentTurn, unitId, to[1], to[2])
                /\ entities' = entities]_vars
    /\ [][\A id \in EntityIds :
            entities'[id].position # entities[id].position =>
                entities[id].unit.owner = players[currentTurn + 1].id]_vars

\* the second player's turn, with both units moved off their first tiles and
\* the first player's unit out of reach of further move_unit commands
C30_Witness ==
    /\ currentTurn = 1
    /\ \A id \in EntityIds : entities[id].position # CreateInitialUnits[id].position
    /\ entities[1].unit.movement < CreateInitialUnits[1].unit.movement
    /\ NotMovable(0)
    /\ NotMovable(7)

====
